------------------------------ MODULE MenuProofs ------------------------------
(***************************************************************************)
(* The menus, for all calibrations and any number of edits: what is        *)
(* adjusted is in its range, a digit of it is selected, and time, date and *)
(* calibration are written only by an edit that has read them.  The        *)
(* one-time passwords behind them are locked in time, for every timeout    *)
(* and whatever the menus do.                                              *)
(***************************************************************************)
EXTENDS Otp, TLAPS

-----------------------------------------------------------------------------
(* What the proofs use of the tables of menus.                             *)

\* The screens of each app.
ScreensOf ==
    [time |-> {"home", "time_conf", "acal", "adj"}, launcher |-> {"launcher"},
     countdown |-> {"countdown", "countdown_edit"},
     alarm |-> {"alarm", "alarm_edit", "days"},
     compass |-> {"compass", "compass_cal"}, speed |-> {"speed"},
     conf |-> {"conf", "debug"}, otp |-> {"otp", "items"},
     chro |-> {"chro"}, play |-> {"play"}]

ItemsOf(m) == {Items[m][i] : i \in 1..Len(Items[m])}

LEMMA MenuNames ==
    Menus = {"launcher", "time_conf", "acal", "conf", "alarm_edit",
             "countdown_edit", "otp", "compass", "compass_cal", "speed"}
BY DEF Menus, Items

\* The items that open a screen or read before they are adjusted.
Special == Loading \union DOMAIN Opens

LEMMA SpecialItems ==
    /\ ItemsOf("launcher") \intersect Special \subseteq {}
    /\ ItemsOf("time_conf") \intersect Special \subseteq Loading \union {"acal", "adj"}
    /\ ItemsOf("acal") \intersect Special \subseteq {}
    /\ ItemsOf("conf") \intersect Special \subseteq {"debug"}
    /\ ItemsOf("alarm_edit") \intersect Special \subseteq {"days"}
    /\ ItemsOf("countdown_edit") \intersect Special \subseteq {"start_stop"}
    /\ ItemsOf("otp") \intersect Special \subseteq {"items"}
    /\ ItemsOf("compass") \intersect Special \subseteq {"compass_cal"}
    /\ ItemsOf("compass_cal") \intersect Special \subseteq {}
    /\ ItemsOf("speed") \intersect Special \subseteq {}
<1>0. ASSUME NEW m, NEW t, Items[m] = t
      PROVE  \A item \in ItemsOf(m) : \E i \in 1..Len(t) : item = t[i]
  BY <1>0 DEF ItemsOf
<1> USE DEF Special, Loading, Opens
<1>1. ItemsOf("launcher") \intersect Special \subseteq {}
  <2>1. Items["launcher"] = LauncherItems
    BY DEF Items
  <2> QED BY <2>1, <1>0 DEF LauncherItems
<1>2. ItemsOf("time_conf") \intersect Special \subseteq Loading \union {"acal", "adj"}
  <2>1. Items["time_conf"] = TimeItems
    BY DEF Items
  <2> QED BY <2>1, <1>0 DEF TimeItems
<1>3. ItemsOf("acal") \intersect Special \subseteq {}
  <2>1. Items["acal"] = AcalItems
    BY DEF Items
  <2> QED BY <2>1, <1>0 DEF AcalItems
<1>4. ItemsOf("conf") \intersect Special \subseteq {"debug"}
  <2>1. Items["conf"] = ConfItems
    BY DEF Items
  <2> QED BY <2>1, <1>0, SMTT(60) DEF ConfItems
<1>5. ItemsOf("alarm_edit") \intersect Special \subseteq {"days"}
  <2>1. Items["alarm_edit"] = AlarmItems
    BY DEF Items
  <2> QED BY <2>1, <1>0 DEF AlarmItems
<1>6. ItemsOf("countdown_edit") \intersect Special \subseteq {"start_stop"}
  <2>1. Items["countdown_edit"] = CountdownItems
    BY DEF Items
  <2> QED BY <2>1, <1>0 DEF CountdownItems
<1>7. ItemsOf("otp") \intersect Special \subseteq {"items"}
  <2>1. Items["otp"] = OtpItems
    BY DEF Items
  <2> QED BY <2>1, <1>0 DEF OtpItems
<1>8. ItemsOf("compass") \intersect Special \subseteq {"compass_cal"}
  <2>1. Items["compass"] = CompassItems
    BY DEF Items
  <2> QED BY <2>1, <1>0 DEF CompassItems
<1>9. ItemsOf("compass_cal") \intersect Special \subseteq {}
  <2>1. Items["compass_cal"] = CompassCalItems
    BY DEF Items
  <2> QED BY <2>1, <1>0 DEF CompassCalItems
<1>10. ItemsOf("speed") \intersect Special \subseteq {}
  <2>1. Items["speed"] = SpeedItems
    BY DEF Items
  <2> QED BY <2>1, <1>0 DEF SpeedItems
<1> HIDE DEF Special, Loading, Opens
<1> QED BY <1>1, <1>2, <1>3, <1>4, <1>5, <1>6, <1>7, <1>8, <1>9, <1>10

LEMMA ItemCounts == \A m \in Menus : Len(Items[m]) \in Nat \ {0}
BY MenuNames DEF Items, LauncherItems, TimeItems, AcalItems, ConfItems, AlarmItems,
   CountdownItems, OtpItems, CompassItems, CompassCalItems, SpeedItems

\* The menus whose cursor is put on the first item when they are entered begin
\* with one that is not a number; a number that is read first is in one of them.
LEMMA FirstItems ==
    /\ Type(Items["time_conf"][1]) # "ADJ" /\ Type(Items["acal"][1]) # "ADJ"
<1>1. Items["time_conf"][1] = "base" /\ Items["acal"][1] = "meas"
  BY DEF Items, TimeItems, AcalItems
<1> QED BY <1>1 DEF Type, Adj, BeepSettings, OtherSettings, OtherNumbers

LEMMA LoadingItems ==
    \A m \in Menus : m # "time_conf" => ItemsOf(m) \intersect Loading = {}
BY MenuNames, SpecialItems DEF Loading, Special

\* Every key leads to a screen of the same app, to the launcher or home.
LEMMA OpensWithin ==
    ASSUME NEW a \in DOMAIN ScreensOf, NEW m \in ScreensOf[a] \intersect Menus,
           NEW item \in ItemsOf(m) \intersect DOMAIN Opens
    PROVE  a # "launcher" /\ Opens[item] \in ScreensOf[a]
<1>1. item \in ItemsOf(m) \intersect Special
  BY DEF Special
<1>2. CASE m = "time_conf"
  <2>1. a = "time" /\ item \in {"acal", "adj"}
    BY <1>1, <1>2, SpecialItems DEF ScreensOf, Opens, Loading
  <2> QED BY <2>1 DEF ScreensOf, Opens
<1>3. CASE m \in {"conf", "otp"}
  <2>1. a = m /\ item = IF m = "conf" THEN "debug" ELSE "items"
    BY <1>1, <1>3, SpecialItems DEF ScreensOf
  <2> QED BY <1>3, <2>1 DEF ScreensOf, Opens
<1>4. CASE m \in {"alarm_edit", "countdown_edit"}
  <2>1. /\ a = IF m = "alarm_edit" THEN "alarm" ELSE "countdown"
        /\ item = IF m = "alarm_edit" THEN "days" ELSE "start_stop"
    BY <1>1, <1>4, SpecialItems DEF ScreensOf
  <2> QED BY <1>4, <2>1 DEF ScreensOf, Opens
<1>5. CASE m = "compass"
  <2>1. a = "compass" /\ item = "compass_cal"
    BY <1>1, <1>5, SpecialItems DEF ScreensOf
  <2> QED BY <2>1 DEF ScreensOf, Opens
<1> QED BY <1>1, <1>2, <1>3, <1>4, <1>5, MenuNames, SpecialItems

LEMMA ExitsWithin ==
    ASSUME NEW a \in DOMAIN ScreensOf, NEW m \in ScreensOf[a] \intersect DOMAIN ExitTo
    PROVE  \/ a = "launcher" /\ ExitTo[m] # "launcher"
           \/ ExitTo[m] \in ScreensOf[a]
           \/ a # "time" /\ ExitTo[m] = "launcher"
BY DEF ScreensOf, ExitTo

LEMMA LongWithin ==
    ASSUME NEW a \in DOMAIN ScreensOf, NEW m \in ScreensOf[a] \intersect DOMAIN LongTo
    PROVE  /\ a # "launcher"
           /\ \/ LongTo[m] \in ScreensOf[a]
              \/ a # "time" /\ LongTo[m] = "launcher"
<1>1. CASE m \in {"countdown", "alarm", "play"}
  <2>1. a = m
    BY <1>1 DEF ScreensOf
  <2> QED BY <1>1, <2>1 DEF LongTo
<1>2. CASE m = "days"
  <2>1. a = "alarm"
    BY <1>2 DEF ScreensOf
  <2>2. LongTo["days"] = "alarm_edit" /\ ScreensOf["alarm"] = {"alarm", "alarm_edit", "days"}
    BY DEF LongTo, ScreensOf
  <2> QED BY <1>2, <2>1, <2>2
<1>3. CASE m \in {"debug", "items"}
  <2>1. a = IF m = "debug" THEN "conf" ELSE "otp"
    BY <1>3 DEF ScreensOf
  <2>2. /\ LongTo["debug"] = "conf" /\ LongTo["items"] = "otp"
        /\ "conf" \in ScreensOf["conf"] /\ "otp" \in ScreensOf["otp"]
    BY DEF LongTo, ScreensOf
  <2> QED BY <1>3, <2>1, <2>2
<1>4. m \in {"countdown", "alarm", "play", "days", "debug", "items"}
  BY DEF LongTo
<1> QED BY <1>1, <1>2, <1>3, <1>4

LEMMA ShortWithin ==
    ASSUME NEW a \in DOMAIN ScreensOf, NEW m \in ScreensOf[a] \intersect DOMAIN ShortTo
    PROVE  a # "launcher" /\ ShortTo[m] \in ScreensOf[a]
BY DEF ScreensOf, ShortTo

LEMMA ScreensAreScreens ==
    \A a \in DOMAIN ScreensOf : ScreensOf[a] \subseteq Screens
BY MenuNames DEF ScreensOf, Screens, LongTo, ShortTo

-----------------------------------------------------------------------------
(* The tables of numbers.                                                  *)

Bounds(b) == b[1] \in Int /\ b[2] \in Int /\ b[1] <= b[2]

\* Digits are numbered from 0; each belongs to a field, which has its bounds.
NumberTable(t) ==
    /\ \E n \in Nat \ {0} : DOMAIN t.digit = 0..n - 1
    /\ \A d \in DOMAIN t.digit : t.digit[d][1] \in DOMAIN t.bounds /\ t.digit[d][2] \in Int
    /\ \A f \in DOMAIN t.bounds : Bounds(t.bounds[f])

LEMMA NumberIsTable ==
    ASSUME NEW digits \in Nat \ {0}, NEW low \in Int, NEW high \in Int, low <= high
    PROVE  NumberTable(Number(digits, low, high))
BY DEF NumberTable, Number, Bounds

LEMMA PairsIsTable ==
    ASSUME NEW bounds, Len(bounds) \in Nat \ {0}, DOMAIN bounds = 1..Len(bounds),
           \A f \in 1..Len(bounds) : Bounds(bounds[f])
    PROVE  NumberTable(Pairs(bounds))
<1> DEFINE t == Pairs(bounds)
           n == 2 * Len(bounds)
<1>2. t.bounds = bounds /\ t.digit = [d \in 0..n - 1 |-> <<1 + d \div 2, 10^(d % 2)>>]
  BY DEF Pairs
<1>3. n \in Nat \ {0} /\ DOMAIN t.digit = 0..n - 1
  BY <1>2
<1>4. ASSUME NEW d \in 0..n - 1
      PROVE  t.digit[d][1] \in DOMAIN t.bounds /\ t.digit[d][2] \in Int
  <2>1. 1 + d \div 2 \in 1..Len(bounds) /\ d % 2 \in Nat
    OBVIOUS
  <2>2. 10^(d % 2) \in Int
    BY <2>1
  <2>3. t.digit[d][1] = 1 + d \div 2 /\ t.digit[d][2] = 10^(d % 2)
    BY <1>2
  <2> QED BY <2>1, <2>2, <2>3, <1>2
<1> HIDE DEF t, n
<1>5. \A f \in DOMAIN t.bounds : Bounds(t.bounds[f])
  BY <1>2
<1>6. NumberTable(t)
  BY <1>3, <1>4, <1>5 DEF NumberTable
<1> QED BY <1>6 DEF t

LEMMA DateIsTable == NumberTable(Date)
<1>1. Date.bounds = << <<1, 31>>, <<1, 12>>, <<2000, 9999>> >> /\ DOMAIN Date.digit = 0..7
  BY DEF Date
<1>2. ASSUME NEW d \in 0..7
      PROVE  Date.digit[d][1] \in 1..3 /\ Date.digit[d][2] \in Int
  <2>1. CASE d < 4
    <3>1. 1 + d \div 2 \in 1..2 /\ d % 2 \in Nat
      BY <2>1
    <3>2. 10^(d % 2) \in Int
      BY <3>1
    <3>3. Date.digit[d] = <<1 + d \div 2, 10^(d % 2)>>
      BY <2>1 DEF Date
    <3> QED BY <3>1, <3>2, <3>3
  <2>2. CASE d >= 4
    <3>1. Date.digit[d] = <<3, 10^(d - 4)>> /\ d - 4 \in Nat
      BY <2>2 DEF Date
    <3> QED BY <3>1
  <2> QED BY <2>1, <2>2
<1>3. \A f \in 1..3 : Bounds(Date.bounds[f])
  BY <1>1 DEF Bounds
<1>4. DOMAIN Date.bounds = 1..3
  BY <1>1
<1>5. \E n \in Nat \ {0} : DOMAIN Date.digit = 0..n - 1
  <2>1. DOMAIN Date.digit = 0..8 - 1
    BY <1>1
  <2> WITNESS 8 \in Nat \ {0}
  <2> QED BY <2>1
<1>6. \A d \in DOMAIN Date.digit : /\ Date.digit[d][1] \in DOMAIN Date.bounds
                                   /\ Date.digit[d][2] \in Int
  BY <1>1, <1>2, <1>4
<1>7. \A f \in DOMAIN Date.bounds : Bounds(Date.bounds[f])
  BY <1>3, <1>4
<1> QED BY <1>5, <1>6, <1>7, Zenon DEF NumberTable

LEMMA NumberNames ==
    DOMAIN Adj = {"kef", "ked", "hrf", "hrd", "hiq", "bti", "bbri", "con", "arep", "t2ho",
                  "ti", "da", "cal", "al", "ct", "uloc", "di"}
BY DEF Adj, BeepSettings, OtherSettings, OtherNumbers

LEMMA NumberTables == \A item \in DOMAIN Adj : NumberTable(Adj[item])
<1>1. NumberTable(Hms)
  BY PairsIsTable DEF Hms, Bounds
<1>2. NumberTable(AlarmTime)
  BY PairsIsTable DEF AlarmTime, Bounds
<1>3. ASSUME NEW item \in DOMAIN BeepSettings
      PROVE  NumberTable(BeepSettings[item])
  <2>1. CASE item = "hiq"
    <3>1. BeepSettings["hiq"] = Pairs(<< <<0, 23>>, <<0, 23>> >>)
      BY DEF BeepSettings
    <3>2. NumberTable(Pairs(<< <<0, 23>>, <<0, 23>> >>))
      BY PairsIsTable DEF Bounds
    <3> QED BY <2>1, <3>1, <3>2
  <2>2. CASE item \in {"kef", "ked", "hrf", "hrd"}
    <3>1. /\ BeepSettings["kef"] = Number(4, 400, 9999) /\ BeepSettings["ked"] = Number(2, 1, 50)
          /\ BeepSettings["hrf"] = Number(4, 400, 9999) /\ BeepSettings["hrd"] = Number(2, 1, 100)
      BY DEF BeepSettings
    <3> QED BY <2>2, <3>1, NumberIsTable
  <2> QED BY <2>1, <2>2 DEF BeepSettings
<1>4. \A item \in DOMAIN OtherSettings : NumberTable(OtherSettings[item])
  BY NumberIsTable DEF OtherSettings
<1>5. \A item \in DOMAIN OtherNumbers : NumberTable(OtherNumbers[item])
  BY <1>1, <1>2, DateIsTable, NumberIsTable DEF OtherNumbers, Pin, Distance, Calibration
<1> QED BY <1>3, <1>4, <1>5 DEF Adj

\* The digits of a number are as many as its table has.
LEMMA DigitsOfTable ==
    ASSUME NEW item \in DOMAIN Adj
    PROVE  Digits(item) \in Nat \ {0} /\ DOMAIN Adj[item].digit = 0..Digits(item) - 1
<1>1. PICK n \in Nat \ {0} : DOMAIN Adj[item].digit = 0..n - 1
  BY NumberTables DEF NumberTable
<1> DEFINE D == DOMAIN Adj[item].digit
           last == CHOOSE d \in D : \A e \in D : e <= d
<1>2. n - 1 \in D /\ \A e \in D : e <= n - 1
  BY <1>1
<1>3. last \in D /\ \A e \in D : e <= last
  BY <1>2
<1>4. last = n - 1
  BY <1>1, <1>2, <1>3
<1>5. Digits(item) = 1 + last
  BY DEF Digits
<1> HIDE DEF last
<1> QED BY <1>1, <1>4, <1>5

\* The two facts about a number that the code relies on: the calibration has
\* one field, and the idle time none that IdleTime could leave.
LEMMA CalTable ==
    /\ DOMAIN Adj["cal"].bounds = {1} /\ Adj["cal"].bounds[1] = <<0, 240>>
    /\ \A d \in DOMAIN Adj["cal"].digit : Adj["cal"].digit[d][1] = 1
BY DEF Adj, BeepSettings, OtherSettings, OtherNumbers, Calibration, Number

LEMMA IdleTable ==
    /\ DOMAIN Adj["t2ho"].bounds = {1} /\ Adj["t2ho"].bounds[1] = <<0, 200>>
BY DEF Adj, BeepSettings, OtherSettings, OtherNumbers, Number

-----------------------------------------------------------------------------
(* The inductive invariant.                                                *)

EditOn(s, states) ==
    s \in Menus /\ states[s].adj /\ Type(ItemOf(s, states)) = "ADJ"

\* The menus' states, on whatever screen they were left: a number that was
\* being adjusted still has its digit.
StatesOK(states) ==
    /\ states \in [Menus -> [item : Nat, adj : BOOLEAN, digit : Int]]
    /\ \A m \in Menus : states[m].item < Len(Items[m])
    /\ \A m \in Menus : EditOn(m, states) =>
          states[m].digit \in 0..Digits(ItemOf(m, states)) - 1

CalOK ==
    /\ cal \in -255..255 /\ cal_value \in 0..255 /\ cal_sign \in BOOLEAN
    /\ touched \in BOOLEAN /\ sets \in 0..MaxSets

\* Each app shows a screen of its own.  The time app's menus are open in a
\* behaviour that visits no other app only.
WhereInv ==
    /\ app \in Apps /\ app_current \in {"time", "launcher", app}
    /\ view_current \in [{"time", "launcher", app} -> Screens]
    /\ \A a \in {"time", "launcher", app} : view_current[a] \in ScreensOf[a]
    /\ app = "time" => app_current = "time"
    /\ app # "time" => view_current["time"] = "home"

InRange(item, v) ==
    /\ DOMAIN v = DOMAIN Adj[item].bounds
    /\ \A f \in DOMAIN v : v[f] \in Adj[item].bounds[f][1]..Adj[item].bounds[f][2]

\* The number being adjusted, and what the chip has while the calibration is
\* looked at only.
NumberInv ==
    /\ loaded \in Loading \union {"none"}
    /\ Editing /\ Item \in Loading => loaded = Item
    /\ Editing /\ Item # "cal" => InRange(Item, value)
    /\ Editing /\ Item = "cal" =>
          /\ value = <<cal_value>>
          /\ touched => cal_value <= 240
          /\ ~touched => cal = IF cal_sign THEN -cal_value ELSE cal_value

MenuInv == WhereInv /\ StatesOK(st) /\ CalOK /\ NumberInv

-----------------------------------------------------------------------------
(* Going to another screen.                                                *)

\* The item under the cursor is one of the menu's.
LEMMA ItemInMenu ==
    ASSUME NEW states, StatesOK(states), NEW m \in Menus
    PROVE  ItemOf(m, states) \in ItemsOf(m)
BY DEF StatesOK, ItemOf, ItemsOf

LEMMA NumberType == \A item : Type(item) = "ADJ" <=> item \in DOMAIN Adj
BY DEF Type

\* A number as it is found is in its range.
LEMMA FoundInRange ==
    ASSUME NEW item \in DOMAIN Adj, item # "cal", NEW v \in Found(item)
    PROVE  InRange(item, v)
<1>1. PICK b \in 1..2 : v = [f \in DOMAIN Adj[item].bounds |-> Adj[item].bounds[f][b]]
  BY DEF Found
<1>2. \A f \in DOMAIN Adj[item].bounds : Bounds(Adj[item].bounds[f])
  BY NumberTables DEF NumberTable
<1> QED BY <1>1, <1>2 DEF InRange, Bounds

\* Moving a cursor to the first item keeps what StatesOK says, if nothing is
\* adjusted there.
LEMMA RewindOK ==
    ASSUME NEW states, StatesOK(states), NEW m \in Menus,
           ~states[m].adj \/ Type(Items[m][1]) # "ADJ"
    PROVE  StatesOK([states EXCEPT ![m].item = 0])
<1> DEFINE new == [states EXCEPT ![m].item = 0]
<1>1. new \in [Menus -> [item : Nat, adj : BOOLEAN, digit : Int]]
  BY DEF StatesOK
<1>2. /\ new[m].item = 0 /\ new[m].adj = states[m].adj
      /\ \A n \in Menus \ {m} : new[n] = states[n]
  BY DEF StatesOK
<1>3. \A n \in Menus : new[n].item < Len(Items[n])
  BY <1>2, ItemCounts DEF StatesOK
<1>4. ~EditOn(m, new)
  BY <1>2 DEF EditOn, ItemOf
<1>5. \A n \in Menus : EditOn(n, new) => new[n].digit \in 0..Digits(ItemOf(n, new)) - 1
  BY <1>2, <1>4 DEF StatesOK, EditOn, ItemOf
<1> QED BY <1>1, <1>3, <1>5 DEF StatesOK

LEMMA EnterViewOK ==
    ASSUME NEW states, StatesOK(states), NEW view
    PROVE  /\ StatesOK(EnterView(view, states))
           /\ view = "time_conf" => ~EditOn(view, EnterView(view, states))
<1>1. CASE view \in {"time_conf", "acal"}
  <2>1. EnterView(view, states) = [states EXCEPT ![view].item = 0] /\ view \in Menus
    BY <1>1, MenuNames DEF EnterView
  <2>2. Type(Items[view][1]) # "ADJ"
    BY <1>1, FirstItems
  <2>3. ItemOf(view, EnterView(view, states)) = Items[view][1]
    BY <2>1 DEF StatesOK, ItemOf
  <2>4. StatesOK(EnterView(view, states))
    BY <2>1, <2>2, RewindOK
  <2> QED BY <2>2, <2>3, <2>4 DEF EditOn
<1>2. CASE view \notin {"time_conf", "acal"}
  BY <1>2 DEF EnterView
<1> QED BY <1>1, <1>2

\* On a screen other than the one that has the numbers read first, the number
\* that is found there is in its range.
LEMMA NumberFound ==
    ASSUME StatesOK(st'), CalOK', WhereInv', loaded' = "none",
           screen' = "time_conf" => ~Editing',
           value' \in NumberOn(screen', st')
    PROVE  NumberInv'
<1> SUFFICES ASSUME Editing' PROVE Item' \notin Loading /\ InRange(Item, value)'
  BY DEF NumberInv, Loading
<1>1. screen' \in Menus /\ screen' # "time_conf" /\ Item' \in ItemsOf(screen')
  BY ItemInMenu DEF Editing, Item
<1>2. Item' \notin Loading
  BY <1>1, LoadingItems
<1>3. Item' \in DOMAIN Adj /\ Item' # "cal"
  BY <1>2, NumberType DEF Editing, Loading
<1>4. value' \in Found(Item')
  BY DEF NumberOn, Editing, State, Item
<1> QED BY <1>2, <1>3, <1>4, FoundInRange

LEMMA SetViewStep ==
    ASSUME MenuInv, NEW view \in ScreensOf[app_current], NEW states, StatesOK(states),
           app_current # "launcher", app_current = "time" => app = "time",
           app_set_view(view, states), CalOK'
    PROVE  MenuInv'
<1>1. app_current \in DOMAIN ScreensOf /\ view \in Screens
  BY ScreensAreScreens, MenuAssumption DEF MenuInv, WhereInv, ScreensOf
<1>2. screen' = view /\ view_current'[app_current] = view /\ UNCHANGED <<app, app_current>>
  BY DEF app_set_view, MenuInv, WhereInv, screen
<1>3. WhereInv'
  BY <1>1, <1>2 DEF app_set_view, MenuInv, WhereInv
<1>4. StatesOK(st') /\ (screen' = "time_conf" => ~EditOn(screen', st'))
  BY <1>2, EnterViewOK DEF app_set_view
<1>5. ~EditOn(screen', st') => ~Editing'
  BY DEF EditOn, Editing, State, Item
<1>6. loaded' = "none" /\ value' \in NumberOn(screen', st')
  BY <1>2 DEF app_set_view
<1> QED BY <1>3, <1>4, <1>5, <1>6, NumberFound DEF MenuInv

LEMMA LaunchStep ==
    ASSUME MenuInv, NEW a \in {"time", "launcher", app}, app # "time",
           NEW states, StatesOK(states), app_launch(a, states), CalOK'
    PROVE  MenuInv'
<1>1. WhereInv'
  BY DEF app_launch, MenuInv, WhereInv
<1>2. StatesOK(st') /\ loaded' = "none" /\ value' \in NumberOn(screen', st')
  BY DEF app_launch, screen
<1>3. screen' # "time_conf"
  BY MenuAssumption DEF MenuInv, WhereInv, app_launch, screen, ScreensOf
<1> QED BY <1>1, <1>2, <1>3, NumberFound DEF MenuInv

\* What a menu, a list or the return home leads to.
LEMMA GoStep ==
    ASSUME MenuInv, NEW to, NEW states, StatesOK(states), Go(to, states), CalOK',
           \/ app_current = "launcher" /\ to # "launcher"
           \/ to \in ScreensOf[app_current] /\ (app_current = "time" => app = "time")
           \/ app_current # "time" /\ to = "launcher"
    PROVE  MenuInv'
<1>1. app = "time" => app_current = "time"
  BY DEF MenuInv, WhereInv
<1>2. ScreensOf["launcher"] = {"launcher"} /\ "launcher" \notin ScreensOf["time"]
  BY DEF ScreensOf
<1>3. CASE app_launch("launcher", states) /\ app # "time"
  BY <1>3, LaunchStep
<1>4. CASE app_launch("time", states) /\ app # "time"
  BY <1>4, LaunchStep
<1>5. CASE app_current # "launcher" /\ to \in ScreensOf[app_current] /\ app_set_view(to, states)
           /\ (app_current = "time" => app = "time")
  BY <1>5, SetViewStep
<1> QED BY <1>1, <1>2, <1>3, <1>4, <1>5 DEF Go

LEMMA StayStep ==
    ASSUME MenuInv, NEW states, StatesOK(states), StayOn(states), CalOK',
           ~EditOn(screen, states)
    PROVE  MenuInv'
<1>1. WhereInv' /\ StatesOK(st') /\ loaded' = loaded /\ screen' = screen
  BY DEF StayOn, OnScreen, MenuInv, WhereInv, screen
<1>2. ~Editing'
  BY <1>1 DEF StayOn, EditOn, Editing, State, Item
<1> QED BY <1>1, <1>2 DEF MenuInv, NumberInv

-----------------------------------------------------------------------------
(* The actions.                                                            *)

\* On a screen of the time app's menus no other app is visited.
LEMMA OwnScreen ==
    ASSUME MenuInv
    PROVE  /\ screen \in ScreensOf[app_current] /\ app_current \in DOMAIN ScreensOf
           /\ screen # "home" /\ app_current = "time" => app = "time"
           /\ screen = "launcher" => app_current = "launcher"
           /\ app_current = "launcher" => screen = "launcher"
BY MenuAssumption DEF MenuInv, WhereInv, screen, ScreensOf

\* What is written to the chip fits it.
LEMMA CalType ==
    ASSUME NEW c \in Int, hal_rtc_cal_set(c)
    PROVE  cal' \in -255..255 /\ (c \in -255..255 => cal' = c)
<1>1. \A n \in Nat : n % 256 \in 0..255 /\ (n \in 0..255 => n % 256 = n)
  OBVIOUS
<1>2. CASE c < 0
  <2>1. -c \in Nat /\ cal' = -((-c) % 256)
    BY <1>2 DEF hal_rtc_cal_set
  <2>2. (-c) % 256 \in 0..255 /\ (-c \in 0..255 => (-c) % 256 = -c)
    BY <1>1, <2>1
  <2> QED BY <1>2, <2>1, <2>2
<1>3. CASE c >= 0
  BY <1>1, <1>3 DEF hal_rtc_cal_set
<1> QED BY <1>2, <1>3

LEMMA CalUnchanged == ASSUME CalOK, UNCHANGED calibration PROVE CalOK'
BY DEF CalOK, calibration

LEMMA ReturnHomeStep == ASSUME MenuInv, ReturnHome PROVE MenuInv'
<1>1. CalOK'
  BY CalUnchanged DEF MenuInv, ReturnHome
<1>2. CASE app_current = "time"
  <2>1. "home" \in ScreensOf[app_current]
    BY <1>2 DEF ScreensOf
  <2> QED BY <1>1, <1>2, <2>1, OwnScreen, SetViewStep DEF ReturnHome, MenuInv
<1>3. CASE app_current # "time"
  BY <1>1, <1>3, LaunchStep DEF ReturnHome, MenuInv, WhereInv
<1> QED BY <1>2, <1>3

LEMMA MoveStep ==
    ASSUME MenuInv, screen \in Menus, ~State.adj, NEW K, Move(K)
    PROVE  MenuInv'
<1> DEFINE move(i) == IF "DOWN" \in K THEN INC_MOD(i, Len(Items[screen]))
                                      ELSE DEC_MOD(i, Len(Items[screen]))
           states == [st EXCEPT ![screen].item = move(@)]
<1>1. StayOn(states) /\ CalOK'
  BY CalUnchanged DEF Move, MenuInv
<1>2. st[screen].item \in 0..Len(Items[screen]) - 1 /\ Len(Items[screen]) \in Nat \ {0}
  BY ItemCounts DEF MenuInv, StatesOK
<1>3. move(st[screen].item) \in 0..Len(Items[screen]) - 1
  BY <1>2 DEF INC_MOD, DEC_MOD
<1>4. /\ states \in [Menus -> [item : Nat, adj : BOOLEAN, digit : Int]]
      /\ \A m \in Menus \ {screen} : states[m] = st[m]
      /\ states[screen].item \in 0..Len(Items[screen]) - 1
      /\ states[screen].adj = FALSE
  BY <1>2, <1>3 DEF MenuInv, StatesOK, State
<1> HIDE DEF states, move
<1>5. ~EditOn(screen, states)
  BY <1>4 DEF EditOn
<1>6. \A m \in Menus : states[m].item < Len(Items[m])
  BY <1>4, ItemCounts DEF MenuInv, StatesOK
<1>7. \A m \in Menus : EditOn(m, states) => states[m].digit \in 0..Digits(ItemOf(m, states)) - 1
  BY <1>4, <1>5 DEF MenuInv, StatesOK, EditOn, ItemOf
<1>8. StatesOK(states)
  BY <1>4, <1>6, <1>7 DEF StatesOK
<1> QED BY <1>1, <1>5, <1>8, StayStep

\* The menu that is left, or opens a screen, is not adjusting.
LEMMA RewoundOK ==
    ASSUME MenuInv, screen \in Menus, ~State.adj
    PROVE  StatesOK(st) /\ StatesOK(Rewound(screen))
BY RewindOK DEF MenuInv, Rewound, State

LEMMA ExitStep ==
    ASSUME MenuInv, screen \in Menus, ~State.adj, NEW K, Exit(K)
    PROVE  MenuInv'
<1>1. CalOK' /\ \E states : StatesOK(states) /\ Go(ExitTo[screen], states)
  BY CalUnchanged, RewoundOK DEF Exit, MenuInv
<1>2. screen \in DOMAIN ExitTo /\ screen # "home"
  BY MenuNames DEF ExitTo
<1>3. \/ app_current = "launcher" /\ ExitTo[screen] # "launcher"
      \/ ExitTo[screen] \in ScreensOf[app_current]
      \/ app_current # "time" /\ ExitTo[screen] = "launcher"
  BY <1>2, OwnScreen, ExitsWithin
<1> QED BY <1>1, <1>2, <1>3, OwnScreen, GoStep

LEMMA StoreCalOK ==
    ASSUME CalOK, store_cal \/ UNCHANGED calibration
    PROVE  CalOK'
<1>1. CASE UNCHANGED calibration
  BY <1>1, CalUnchanged
<1>2. CASE sets < MaxSets /\ sets' = sets + 1
           /\ (\E ppm \in Deviations : hal_rtc_cal_set(cal - ppm))
           /\ UNCHANGED <<cal_value, cal_sign, touched>>
  <2>1. PICK ppm \in Deviations : hal_rtc_cal_set(cal - ppm)
    BY <1>2
  <2>2. cal' \in -255..255
    BY <2>1, CalType, MenuAssumption DEF CalOK
  <2> QED BY <1>2, <2>2, MenuAssumption DEF CalOK
<1> QED BY <1>1, <1>2 DEF store_cal

LEMMA SelectStep ==
    ASSUME MenuInv, screen \in Menus, ~State.adj, NEW K, Select(K)
    PROVE  MenuInv'
<1>1. CalOK' /\ Item \in ItemsOf(screen) /\ ~EditOn(screen, st)
  BY StoreCalOK, ItemInMenu DEF Select, MenuInv, Item, EditOn, State
<1>2. CASE screen = "launcher" /\ Item \in {"time", app} /\ app_launch(Item, st)
  BY <1>1, <1>2, OwnScreen, LaunchStep DEF MenuInv, WhereInv
<1>3. ASSUME NEW states, StatesOK(states), Item \in DOMAIN Opens,
             app_set_view(Opens[Item], states)
      PROVE  MenuInv'
  <2>1. app_current # "launcher" /\ Opens[Item] \in ScreensOf[app_current]
    BY <1>1, <1>3, OwnScreen, OpensWithin
  <2>2. screen # "home"
    BY MenuNames
  <2> QED BY <1>1, <1>3, <2>1, <2>2, OwnScreen, SetViewStep
<1>4. CASE StayOn(st)
  BY <1>1, <1>4, StayStep DEF MenuInv
<1> QED BY <1>2, <1>3, <1>4, RewoundOK DEF Select

LEMMA ChooseStep ==
    ASSUME MenuInv, screen \in Menus, ~State.adj, NEW K, Choose(K)
    PROVE  MenuInv'
<1>1. CalOK'
  <2>1. CASE UNCHANGED calibration
    BY <2>1, CalUnchanged DEF MenuInv
  <2>2. CASE /\ cal_sign' = ~cal_sign
             /\ hal_rtc_cal_set(IF cal_sign' THEN -cal_value ELSE cal_value)
             /\ UNCHANGED <<cal_value, touched, sets>>
    <3>1. cal' \in -255..255
      BY <2>2, CalType DEF MenuInv, CalOK
    <3> QED BY <2>2, <3>1 DEF MenuInv, CalOK
  <2> QED BY <2>1, <2>2 DEF Choose
<1> QED BY <1>1, StayStep DEF Choose, MenuInv, EditOn, State

LEMMA HomeKeysStep ==
    ASSUME MenuInv, NEW K, app_app_time_display_main(K)
    PROVE  MenuInv'
<1>1. CalOK' /\ StatesOK(st) /\ ~EditOn(screen, st)
  BY CalUnchanged, MenuNames DEF app_app_time_display_main, MenuInv, EditOn
<1>2. app_current = "time"
  BY MenuAssumption DEF MenuInv, WhereInv, app_app_time_display_main, screen, ScreensOf
<1>3. CASE app = "time" /\ app_set_view("time_conf", st)
  <2>1. "time_conf" \in ScreensOf["time"]
    BY DEF ScreensOf
  <2> QED BY <1>1, <1>2, <1>3, <2>1, SetViewStep
<1>4. CASE app # "time" /\ app_launch("launcher", st)
  BY <1>1, <1>4, LaunchStep
<1>5. CASE StayOn(st)
  BY <1>1, <1>5, StayStep
<1> QED BY <1>3, <1>4, <1>5 DEF app_app_time_display_main

LEMMA OtherKeysStep ==
    ASSUME MenuInv, NEW K, other_main(K)
    PROVE  MenuInv'
<1>1. CalOK' /\ StatesOK(st) /\ ~EditOn(screen, st)
  BY CalUnchanged DEF other_main, MenuInv, EditOn
<1>2. screen # "home"
  BY DEF other_main
<1>3. CASE screen \in DOMAIN LongTo /\ Go(LongTo[screen], st)
  BY <1>1, <1>2, <1>3, OwnScreen, LongWithin, GoStep
<1>4. CASE screen \in DOMAIN ShortTo /\ app_set_view(ShortTo[screen], st)
  BY <1>1, <1>2, <1>4, OwnScreen, ShortWithin, SetViewStep
<1>5. CASE screen = "chro" /\ Go("launcher", st)
  <2>1. app_current \notin {"time", "launcher"}
    BY <1>5, OwnScreen DEF ScreensOf
  <2> QED BY <1>1, <1>2, <1>5, <2>1, OwnScreen, GoStep
<1>6. CASE StayOn(st)
  BY <1>1, <1>6, StayStep
<1> QED BY <1>3, <1>4, <1>5, <1>6 DEF other_main

-----------------------------------------------------------------------------
(* Adjusting.                                                              *)

\* The state of a menu on whose item a number is being adjusted.
LEMMA AdjustedOK ==
    ASSUME MenuInv, screen \in Menus, NEW on \in BOOLEAN,
           NEW digit \in 0..Digits(Item) - 1, Type(Item) = "ADJ",
           st' = [st EXCEPT ![screen] = [item |-> @.item, adj |-> on, digit |-> digit]],
           UNCHANGED <<app, app_current, view_current>>
    PROVE  /\ WhereInv' /\ StatesOK(st')
           /\ screen' = screen /\ Item' = Item /\ (Editing' <=> on)
<1>1. WhereInv' /\ screen' = screen
  BY DEF MenuInv, WhereInv, screen
<1>2. Digits(Item) \in Nat \ {0}
  BY NumberType, DigitsOfTable
<1>3. /\ st' \in [Menus -> [item : Nat, adj : BOOLEAN, digit : Int]]
      /\ \A m \in Menus \ {screen} : st'[m] = st[m]
      /\ st'[screen] = [item |-> st[screen].item, adj |-> on, digit |-> digit]
  BY <1>2 DEF MenuInv, StatesOK
<1>4. Item' = Item /\ ItemOf(screen, st') = Item
  BY <1>1, <1>3 DEF Item, ItemOf
<1>5. Editing' <=> on
  BY <1>1, <1>3, <1>4 DEF Editing, State
<1>6. \A m \in Menus : st'[m].item < Len(Items[m])
  BY <1>3 DEF MenuInv, StatesOK
<1>7. \A m \in Menus : EditOn(m, st') => st'[m].digit \in 0..Digits(ItemOf(m, st')) - 1
  BY <1>3, <1>4 DEF MenuInv, StatesOK, EditOn, ItemOf
<1> QED BY <1>1, <1>3, <1>4, <1>5, <1>6, <1>7 DEF StatesOK

LEMMA AdjustStep ==
    ASSUME MenuInv, screen \in Menus, ~State.adj, NEW K, Adjust(K)
    PROVE  MenuInv'
<1>1. Type(Item) = "ADJ" /\ Item \in DOMAIN Adj
  BY NumberType DEF Adjust
<1>2. FirstDigit(Item) \in 0..Digits(Item) - 1
  BY <1>1, DigitsOfTable DEF FirstDigit
<1>3. /\ WhereInv' /\ StatesOK(st') /\ screen' = screen /\ Item' = Item /\ Editing'
  BY <1>1, <1>2, AdjustedOK DEF Adjust
<1>4. loaded' \in Loading \union {"none"} /\ (Item \in Loading => loaded' = Item)
  BY DEF Adjust, MenuInv, NumberInv
<1>5. CASE Item = "cal"
  <2>1. /\ cal_value' = (IF cal < 0 THEN -cal ELSE cal) /\ cal_sign' = (cal < 0)
        /\ value' = <<cal_value'>> /\ touched' = FALSE /\ UNCHANGED <<cal, sets>>
    BY <1>5 DEF Adjust, Load, CalSign
  <2>2. cal \in -255..255 /\ cal_value' \in 0..255
    BY <2>1 DEF CalOK, MenuInv
  <2>3. CalOK'
    <3>1. cal_sign' \in BOOLEAN
      <4>1. (cal < 0) \in BOOLEAN
        OBVIOUS
      <4> QED BY <2>1, <4>1, Zenon
    <3>2. touched' \in BOOLEAN /\ sets' \in 0..MaxSets /\ cal' \in -255..255
      BY <2>1, <2>2 DEF CalOK, MenuInv
    <3> QED BY <2>2, <3>1, <3>2, Zenon DEF CalOK
  <2>4. CASE cal < 0
    <3>1. cal_sign' /\ cal_value' = -cal
      BY <2>1, <2>4
    <3>2. cal = -cal_value'
      BY <2>2, <3>1
    <3> QED BY <1>3, <1>4, <1>5, <2>1, <2>3, <3>1, <3>2 DEF MenuInv, NumberInv
  <2>5. CASE ~(cal < 0)
    <3>1. ~cal_sign' /\ cal_value' = cal
      BY <2>1, <2>5
    <3> QED BY <1>3, <1>4, <1>5, <2>1, <2>3, <3>1 DEF MenuInv, NumberInv
  <2> QED BY <2>4, <2>5
<1>6. CASE Item # "cal"
  <2>1. value' \in Found(Item) /\ UNCHANGED <<cal_value, cal_sign, cal, sets>> /\ touched' = FALSE
    BY <1>6 DEF Adjust, Load
  <2>2. CalOK'
    BY <2>1 DEF CalOK, MenuInv
  <2>3. InRange(Item, value')
    BY <1>1, <1>6, <2>1, FoundInRange
  <2>4. InRange(Item, value)'
    BY <1>3, <2>3
  <2> QED BY <1>3, <1>4, <1>6, <2>2, <2>4 DEF MenuInv, NumberInv
<1> QED BY <1>5, <1>6

\* A step of a digit stays in the bounds of its field.
LEMMA SteppedInRange ==
    ASSUME NEW x \in Int, NEW inc \in Int, NEW bounds, Bounds(bounds),
           Item = "t2ho" => bounds = <<0, 200>>
    PROVE  Stepped(x, inc, bounds) \in bounds[1]..bounds[2]
<1>1. \A y \in Int : Clamp(y, bounds[1], bounds[2]) \in bounds[1]..bounds[2]
  BY DEF Clamp, Bounds
<1>2. x + inc \in Int /\ DistanceSum(x, inc) \in Int
  BY DEF DistanceSum
<1>3. Item = "t2ho" => IdleTime(x, inc) \in bounds[1]..bounds[2]
  BY DEF IdleTime, Clamp
<1> QED BY <1>1, <1>2, <1>3 DEF Stepped

LEMMA SetInRange ==
    ASSUME MenuInv, Editing, NEW dir \in {-1, 1},
           DOMAIN value = DOMAIN Adj[Item].bounds, \A f \in DOMAIN value : value[f] \in Int
    PROVE  LET d == Adj[Item].digit[Digits(Item) - State.digit - 1]
           IN  /\ d[1] \in DOMAIN value
               /\ handler_set(dir) =
                      [value EXCEPT ![d[1]] = Stepped(@, dir * d[2], Adj[Item].bounds[d[1]])]
               /\ handler_set(dir)[d[1]] \in Adj[Item].bounds[d[1]][1]..Adj[Item].bounds[d[1]][2]
<1> DEFINE d == Adj[Item].digit[Digits(Item) - State.digit - 1]
<1>1. Item \in DOMAIN Adj
  BY NumberType DEF Editing
<1>2. Digits(Item) - State.digit - 1 \in DOMAIN Adj[Item].digit
  BY <1>1, DigitsOfTable DEF MenuInv, StatesOK, Editing, EditOn, State, Item
<1>3. d[1] \in DOMAIN value /\ d[2] \in Int /\ Bounds(Adj[Item].bounds[d[1]])
  BY <1>1, <1>2, NumberTables DEF NumberTable
<1>4. handler_set(dir) =
         [value EXCEPT ![d[1]] = Stepped(@, dir * d[2], Adj[Item].bounds[d[1]])]
  BY DEF handler_set
<1>5. Item = "t2ho" => Adj[Item].bounds[d[1]] = <<0, 200>>
  BY <1>3, IdleTable
<1>6. dir * d[2] \in Int
  BY <1>3
<1> HIDE DEF d
<1>7. Stepped(value[d[1]], dir * d[2], Adj[Item].bounds[d[1]])
          \in Adj[Item].bounds[d[1]][1]..Adj[Item].bounds[d[1]][2]
  BY <1>3, <1>5, <1>6, SteppedInRange
<1> QED BY <1>3, <1>4, <1>7 DEF d

LEMMA AdjustingStep ==
    ASSUME MenuInv, screen \in Menus, State.adj, NEW K, Adjusting(K)
    PROVE  MenuInv'
<1> DEFINE number == IF Dir(K) = 0 THEN value ELSE handler_set(Dir(K))
<1>1. Editing /\ Type(Item) = "ADJ" /\ Item \in DOMAIN Adj
  BY NumberType DEF Adjusting, Editing
<1>2. Dir(K) \in {-1, 0, 1}
  BY DEF Dir
<1>3. State.digit \in 0..Digits(Item) - 1 /\ Digits(Item) \in Nat \ {0}
  BY <1>1, DigitsOfTable DEF MenuInv, StatesOK, EditOn, State, Item
<1>4. /\ WhereInv' /\ StatesOK(st') /\ screen' = screen /\ Item' = Item
      /\ Editing' <=> StillAdjusting(K)
  <2> DEFINE digit == IF "ENTER" \in K THEN INC_MOD(State.digit, Digits(Item)) ELSE State.digit
  <2>1. digit \in 0..Digits(Item) - 1
    BY <1>3 DEF INC_MOD
  <2>2. StillAdjusting(K) \in BOOLEAN
    BY DEF StillAdjusting
  <2>3. st' = [st EXCEPT ![screen] =
                   [item |-> @.item, adj |-> StillAdjusting(K), digit |-> digit]]
    BY DEF Adjusting, State
  <2> HIDE DEF digit
  <2> QED BY <1>1, <2>1, <2>2, <2>3, AdjustedOK DEF Adjusting, OnScreen
<1>5. /\ loaded' = loaded /\ cal_sign' = cal_sign /\ touched' = (touched \/ Dir(K) # 0)
      /\ cal_value' = IF Item = "cal" THEN number[1] ELSE cal_value
      /\ value' = IF StillAdjusting(K) THEN number ELSE <<>>
      /\ StillAdjusting(K) \/ Item # "cal" => cal' = cal
      /\ ~StillAdjusting(K) /\ Item = "cal" =>
            hal_rtc_cal_set(IF cal_sign THEN -cal_value' ELSE cal_value')
      /\ sets' \in 0..MaxSets
  BY <1>2, MenuAssumption DEF Adjusting, OnScreen, handler_leave, MenuInv, CalOK
<1>6. touched' \in BOOLEAN /\ cal_sign' \in BOOLEAN
  BY <1>5 DEF MenuInv, CalOK
<1>7. CASE Item = "cal"
  <2>1. value = <<cal_value>> /\ cal_value \in 0..255
    BY <1>1, <1>7 DEF MenuInv, NumberInv, CalOK
  <2>2. /\ number = <<number[1]>> /\ number[1] \in 0..255
        /\ Dir(K) # 0 => number[1] \in 0..240
        /\ Dir(K) = 0 => number[1] = cal_value
    <3>1. CASE Dir(K) = 0
      BY <2>1, <3>1
    <3>2. CASE Dir(K) # 0
      <4>1. DOMAIN value = {1} /\ value[1] \in Int
        BY <2>1
      <4>2. Adj[Item].digit[Digits(Item) - State.digit - 1][1] = 1
        BY <1>1, <1>3, <1>7, CalTable, DigitsOfTable
      <4>3. /\ handler_set(Dir(K))[1] \in 0..240
            /\ handler_set(Dir(K)) = [value EXCEPT ![1] = handler_set(Dir(K))[1]]
        BY <1>1, <1>2, <1>7, <3>2, <4>1, <4>2, SetInRange, CalTable
      <4> QED BY <2>1, <3>2, <4>3
    <3> QED BY <3>1, <3>2
  <2> HIDE DEF number
  <2>3. cal_value' \in 0..255 /\ cal_value' = number[1]
    BY <1>5, <1>7, <2>2
  <2>4. cal' \in -255..255
    <3>1. (IF cal_sign THEN -cal_value' ELSE cal_value') \in Int
      BY <2>3
    <3> QED BY <1>5, <1>7, <3>1, CalType DEF MenuInv, CalOK
  <2>5. CalOK'
    BY <1>5, <1>6, <2>3, <2>4, Zenon DEF CalOK
  <2>6. StillAdjusting(K) =>
            /\ value' = <<cal_value'>>
            /\ touched' => cal_value' <= 240
            /\ ~touched' => cal' = IF cal_sign' THEN -cal_value' ELSE cal_value'
    <3> SUFFICES ASSUME StillAdjusting(K)
                 PROVE  /\ value' = <<cal_value'>>
                        /\ touched' => cal_value' <= 240
                        /\ ~touched' => cal' = IF cal_sign' THEN -cal_value' ELSE cal_value'
      OBVIOUS
    <3>1. value' = <<cal_value'>>
      BY <1>5, <2>2, <2>3
    <3>2. CASE Dir(K) # 0
      <4>1. touched' = TRUE
        BY <1>5, <3>2 DEF MenuInv, CalOK
      <4> QED BY <2>2, <2>3, <3>1, <3>2, <4>1
    <3>3. CASE Dir(K) = 0
      <4>1. (touched' <=> touched) /\ cal_value' = cal_value /\ cal' = cal
        BY <1>5, <2>2, <2>3, <3>3
      <4>2. /\ touched => cal_value <= 240
            /\ ~touched => cal = IF cal_sign THEN -cal_value ELSE cal_value
        BY <1>1, <1>7 DEF MenuInv, NumberInv
      <4> QED BY <1>5, <3>1, <4>1, <4>2
    <3> QED BY <3>2, <3>3
  <2>7. NumberInv'
    BY <1>1, <1>4, <1>5, <1>7, <2>6 DEF MenuInv, NumberInv
  <2> QED BY <1>4, <2>5, <2>7 DEF MenuInv
<1>8. CASE Item # "cal"
  <2>1. CalOK'
    BY <1>5, <1>6, <1>8 DEF MenuInv, CalOK
  <2>2. InRange(Item, value)
    BY <1>1, <1>8 DEF MenuInv, NumberInv
  <2>3. InRange(Item, number)
    <3>1. CASE Dir(K) = 0
      BY <2>2, <3>1
    <3>2. CASE Dir(K) # 0
      <4>1. \A f \in DOMAIN Adj[Item].bounds : Bounds(Adj[Item].bounds[f])
        BY <1>1, NumberTables DEF NumberTable
      <4>2. DOMAIN value = DOMAIN Adj[Item].bounds /\ \A f \in DOMAIN value : value[f] \in Int
        BY <2>2, <4>1 DEF InRange, Bounds
      <4> DEFINE d == Adj[Item].digit[Digits(Item) - State.digit - 1]
                 new == handler_set(Dir(K))
      <4>3. /\ d[1] \in DOMAIN value
            /\ new = [value EXCEPT ![d[1]] = new[d[1]]]
            /\ new[d[1]] \in Adj[Item].bounds[d[1]][1]..Adj[Item].bounds[d[1]][2]
        BY <1>1, <1>2, <3>2, <4>2, SetInRange
      <4> HIDE DEF d, new
      <4>4. InRange(Item, new)
        BY <2>2, <4>3 DEF InRange
      <4> QED BY <3>2, <4>4 DEF new
    <3> QED BY <3>1, <3>2
  <2> HIDE DEF number
  <2>4. StillAdjusting(K) => InRange(Item, value)'
    BY <1>4, <1>5, <2>3
  <2>5. NumberInv'
    BY <1>1, <1>4, <1>5, <1>8, <2>4 DEF MenuInv, NumberInv
  <2> QED BY <1>4, <2>1, <2>5 DEF MenuInv
<1> QED BY <1>7, <1>8

LEMMA NotAdjustableStep ==
    ASSUME MenuInv, screen \in Menus, State.adj, NotAdjustable
    PROVE  MenuInv'
<1> DEFINE states == [st EXCEPT ![screen].adj = FALSE]
<1>1. StayOn(states) /\ CalOK'
  BY CalUnchanged DEF NotAdjustable, MenuInv
<1>2. /\ states \in [Menus -> [item : Nat, adj : BOOLEAN, digit : Int]]
      /\ \A m \in Menus \ {screen} : states[m] = st[m]
      /\ states[screen].item = st[screen].item /\ states[screen].adj = FALSE
  BY DEF MenuInv, StatesOK
<1> HIDE DEF states
<1>3. ~EditOn(screen, states) /\ \A m \in Menus : states[m].item < Len(Items[m])
  BY <1>2 DEF MenuInv, StatesOK, EditOn
<1>4. \A m \in Menus : EditOn(m, states) => states[m].digit \in 0..Digits(ItemOf(m, states)) - 1
  BY <1>2, <1>3 DEF MenuInv, StatesOK, EditOn, ItemOf
<1> QED BY <1>1, <1>2, <1>3, <1>4, StayStep DEF StatesOK

-----------------------------------------------------------------------------
(* The theorems about the menus.                                           *)

LEMMA MenuStep == MenuInv /\ [Next]_vars => MenuInv'
<1> SUFFICES ASSUME MenuInv, [Next]_vars PROVE MenuInv'
  OBVIOUS
<1>1. CASE ReturnHome
  BY <1>1, ReturnHomeStep
<1>2. ASSUME NEW K \in Events, svc_menu_run(K)
      PROVE  MenuInv'
  <2>1. screen \in Menus
    BY <1>2 DEF svc_menu_run
  <2>2. CASE State.adj
    BY <1>2, <2>1, <2>2, AdjustingStep, NotAdjustableStep DEF svc_menu_run
  <2>3. CASE ~State.adj
    BY <1>2, <2>1, <2>3, MoveStep, ExitStep, SelectStep, ChooseStep, AdjustStep
       DEF svc_menu_run
  <2> QED BY <2>2, <2>3
<1>3. ASSUME NEW K \in Events, app_app_time_display_main(K) \/ other_main(K)
      PROVE  MenuInv'
  BY <1>3, HomeKeysStep, OtherKeysStep
<1>4. CASE UNCHANGED vars
  <2>1. /\ UNCHANGED <<app, app_current, view_current, st, value, loaded>>
        /\ UNCHANGED <<cal, cal_value, cal_sign, touched, sets>>
    BY <1>4 DEF vars, calibration
  <2>2. WhereInv' /\ CalOK' /\ StatesOK(st')
    BY <2>1 DEF MenuInv, WhereInv, CalOK
  <2>3. Editing' = Editing /\ Item' = Item
    BY <2>1 DEF Editing, Item, State, screen
  <2>4. NumberInv'
    BY <2>1, <2>3 DEF MenuInv, NumberInv, InRange
  <2> QED BY <2>2, <2>4 DEF MenuInv
<1> QED BY <1>1, <1>2, <1>3, <1>4 DEF Next, Press

LEMMA MenuInit == Init => MenuInv
<1> SUFFICES ASSUME Init PROVE MenuInv
  OBVIOUS
<1>1. \A m \in Menus : st[m].item = 0 /\ ~st[m].adj
  BY DEF Init
<1>2. StatesOK(st)
  BY <1>1, ItemCounts DEF Init, StatesOK, EditOn
<1>3. WhereInv
  <2>1. /\ app \in {"time", "countdown", "alarm", "chro", "play", "compass", "speed",
              "conf", "otp"}
        /\ \A a \in {"time", "launcher", app} :
               view_current[a] \in ScreensOf[a] /\ ScreensOf[a] \subseteq Screens
    <3>1. app \in {"time", "countdown", "alarm", "chro", "play", "compass", "speed",
              "conf", "otp"}
      BY MenuAssumption DEF Init
    <3>2. \A a \in {"time", "launcher", app} : a \in DOMAIN ScreensOf
      BY <3>1 DEF ScreensOf
    <3>3. \A a \in {"time", "launcher", app} :
             (IF a = "time" THEN "home" ELSE a) \in ScreensOf[a]
      BY <3>1 DEF ScreensOf
    <3> QED BY <3>1, <3>2, <3>3, ScreensAreScreens DEF Init
  <2> QED BY <2>1 DEF Init, WhereInv
<1>4. CalOK
  <2>1. cal \in -255..255
    BY MenuAssumption DEF Init
  <2>2. cal_value \in 0..255 /\ sets \in 0..MaxSets
    BY MenuAssumption DEF Init
  <2> QED BY <2>1, <2>2, Zenon DEF Init, CalOK
<1>5. ~Editing
  BY <1>1 DEF Editing, State
<1> QED BY <1>2, <1>3, <1>4, <1>5 DEF Init, MenuInv, NumberInv

LEMMA MenuAlways == Spec => []MenuInv
BY MenuInit, MenuStep, PTL DEF Spec

\* Every variable has its type, and every field of the number that is being
\* adjusted is in the range of its item (handler_set of all the items).
THEOREM MenuTypeCorrect == Spec => []TypeOK
<1>1. MenuInv => TypeOK
  <2> SUFFICES ASSUME MenuInv PROVE TypeOK
    OBVIOUS
  <2>1. ASSUME Editing, NEW f \in DOMAIN value
        PROVE  LET bounds == Adj[Item].bounds[f]
               IN  value[f] \in bounds[1]..bounds[2] \/ (Item = "cal" /\ ~touched)
    <3>1. CASE Item = "cal" /\ touched
      BY <2>1, <3>1, CalTable DEF MenuInv, NumberInv, CalOK
    <3>2. CASE Item # "cal"
      BY <2>1, <3>2 DEF MenuInv, NumberInv, InRange
    <3> QED BY <3>1, <3>2
  <2> QED BY <2>1 DEF MenuInv, WhereInv, StatesOK, CalOK, NumberInv, TypeOK
<1> QED BY <1>1, MenuAlways, PTL

\* Whenever handler_set may be called a digit is selected that the number has:
\* whatever menu was left in the middle of an edit, and however it was entered
\* again (svc_menu_run).
THEOREM DigitsAreValid == Spec => []DigitValid
<1>1. MenuInv => DigitValid
  BY DEF MenuInv, StatesOK, EditOn, DigitValid, Editing, State, Item
<1> QED BY <1>1, MenuAlways, PTL

\* Time, date and calibration are written by an edit that has read them since
\* its screen appeared, and by no other (adj_enter and adj_leave of the time
\* app).
THEOREM CommitsAreLoaded == Spec => CommitLoaded
<1>1. MenuInv => (Editing /\ Item \in Loading /\ ~st'[screen].adj => loaded = Item)
  BY DEF MenuInv, NumberInv
<1> QED BY <1>1, MenuAlways, PTL DEF CommitLoaded

\* An edit of the calibration in which no digit was changed writes what it has
\* read, for all that the chip can hold (cal_enter and cal_leave).
THEOREM LookingKeepsCal == Spec => CalEditNeutral
<1>1. MenuInv /\ [Next]_vars => (Editing /\ Item = "cal" /\ ~touched' => cal' = cal)
  <2> SUFFICES ASSUME MenuInv, [Next]_vars, Editing, Item = "cal", ~touched'
               PROVE  cal' = cal
    OBVIOUS
  <2>1. CASE UNCHANGED calibration
    BY <2>1 DEF calibration
  <2>2. ASSUME NEW K \in Events, Adjusting(K)
        PROVE  cal' = cal
    <3>1. Dir(K) = 0 /\ ~touched
      BY <2>2 DEF Adjusting, MenuInv, CalOK
    <3>2. /\ value = <<cal_value>> /\ cal_value \in 0..255
          /\ cal = IF cal_sign THEN -cal_value ELSE cal_value
      BY <3>1 DEF MenuInv, NumberInv, CalOK
    <3>3. cal_value' = cal_value
      BY <2>2, <3>1, <3>2 DEF Adjusting
    <3>4. (IF cal_sign THEN -cal_value ELSE cal_value) \in -255..255
      BY <3>2
    <3>5. cal' = cal \/ hal_rtc_cal_set(IF cal_sign THEN -cal_value ELSE cal_value)
      BY <2>2, <3>3 DEF Adjusting, handler_leave
    <3> QED BY <3>2, <3>4, <3>5, CalType
  <2>3. screen # "home" /\ screen \in Menus /\ State.adj
    BY MenuNames DEF Editing
  <2> QED BY <2>1, <2>2, <2>3 DEF Next, Press, ReturnHome, svc_menu_run, NotAdjustable,
             app_app_time_display_main, other_main, vars, calibration
<1> QED BY <1>1, MenuAlways, PTL DEF CalEditNeutral, Spec

-----------------------------------------------------------------------------
(* The one-time passwords.                                                 *)

USE OtpAssumption

\* The timeout runs down while the unused seconds run up; only locking stops
\* one without the other.
LockInv ==
    /\ timeout \in 0..OtpTimeout /\ unused \in Nat
    /\ ~locked => timeout + unused <= OtpTimeout

\* A PIN or a token starts the timeout; a lock, whichever way, ends the use.
LEMMA PressStep ==
    ASSUME LockInv, NEW K, OtpPress(K)
    PROVE  LockInv'
<1>1. CASE svc_otp_unlock
  BY <1>1 DEF svc_otp_unlock, LockInv
<1>2. CASE svc_otp_lock
  BY <1>2 DEF svc_otp_lock, LockInv
<1>3. CASE UNCHANGED locked /\ ShowToken
  BY <1>3 DEF ShowToken, LockInv
<1>4. CASE UNCHANGED otp_vars
  BY <1>4 DEF otp_vars, LockInv
<1> QED BY <1>1, <1>2, <1>3, <1>4 DEF OtpPress

LEMMA SecondStep ==
    ASSUME LockInv, Second
    PROVE  LockInv'
<1>1. CASE timeout > 0
  <2>1. timeout' = timeout - 1 /\ locked' = locked
    BY <1>1 DEF Second, svc_otp_process
  <2>2. CASE locked
    BY <2>1, <2>2, <1>1 DEF Second, LockInv
  <2>3. CASE ~locked
    <3>1. unused' = unused + 1
      BY <1>1, <2>3 DEF Second, Capped, LockInv
    <3> QED BY <2>1, <3>1, <1>1 DEF LockInv
  <2> QED BY <2>2, <2>3
<1>2. CASE ~(timeout > 0)
  <2>1. locked' = TRUE /\ timeout' = timeout
    BY <1>2 DEF Second, svc_otp_process
  <2>2. unused' \in Nat
    BY DEF Second, Capped, LockInv
  <2> QED BY <2>1, <2>2 DEF LockInv
<1> QED BY <1>1, <1>2

\* The key is forgotten no later than the timeout after it was last used, for
\* every timeout and every order of keys, seconds and returns home (otp.c).
THEOREM KeyIsForgottenInTime == OtpSpec => []KeyNotKept
<1>1. OtpInit => LockInv
  BY DEF OtpInit, LockInv
<1>2. LockInv /\ [OtpNext]_all_vars => LockInv'
  <2> SUFFICES ASSUME LockInv, [OtpNext]_all_vars PROVE LockInv'
    OBVIOUS
  <2>1. ASSUME NEW K \in Events, OtpPress(K) PROVE LockInv'
    BY <2>1, PressStep
  <2>2. CASE QuietPass
    BY <2>2 DEF QuietPass, ShowToken, LockInv
  <2>3. CASE Second
    BY <2>3, SecondStep
  <2>4. CASE Home \/ UNCHANGED all_vars
    BY <2>4 DEF Home, otp_vars, all_vars, LockInv
  <2> QED BY <2>1, <2>2, <2>3, <2>4 DEF OtpNext
<1>3. LockInv => KeyNotKept
  BY DEF LockInv, KeyNotKept
<1> QED BY <1>1, <1>2, <1>3, PTL DEF OtpSpec

\* The lock takes nothing from the menus: with the one-time passwords they
\* behave as they do alone, so that what was shown of them holds of both.
THEOREM LockKeepsMenus == OtpSpec => Spec
<1>1. OtpInit => Init
  BY DEF OtpInit
<1>2. [OtpNext]_all_vars => [Next]_vars
  <2> SUFFICES ASSUME [OtpNext]_all_vars PROVE [Next]_vars
    OBVIOUS
  <2>1. ASSUME NEW K \in Events, OtpPress(K) PROVE Next
    BY <2>1 DEF OtpPress, Next
  <2>2. CASE Home
    BY <2>2 DEF Home, Next
  <2>3. CASE QuietPass \/ Second \/ UNCHANGED all_vars
    BY <2>3 DEF QuietPass, Second, all_vars
  <2> QED BY <2>1, <2>2, <2>3 DEF OtpNext
<1> QED BY <1>1, <1>2, PTL DEF OtpSpec, Spec

\* The menus' properties, with the one-time passwords behind them.
THEOREM MenusSafeWithLock == OtpSpec => []DigitValid /\ CommitLoaded /\ CalEditNeutral
BY LockKeepsMenus, DigitsAreValid, CommitsAreLoaded, LookingKeepsCal
===============================================================================
