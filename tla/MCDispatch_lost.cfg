CONSTANTS
    time = time
    compass = compass
    display = display
    menu = menu
    adj = adj
    main = main
    cal = cal
    Apps <- MCApps
    Time = time
    Views <- MCViews
    Display = display
    HasEnter <- MCHasEnter
    TimeToHome = 2
    IdleValues = 4
SPECIFICATION DispatchSpec
INVARIANTS KeyReachesApp
