---------------------------------- MODULE Otp ----------------------------------
(***************************************************************************)
(* The one-time passwords (common/svc/otp.c, common/app/otp) behind their  *)
(* menu.  The PIN unlocks them, a timeout locks them again, and the view   *)
(* that shows a token starts the timeout again in every pass.              *)
(*                                                                         *)
(* Locking forgets the key; the view asks for tokens all the same.         *)
(***************************************************************************)
EXTENDS Menu

CONSTANT OtpTimeout     \* g_timeout: 20

ASSUME OtpAssumption == OtpTimeout \in 1..255

VARIABLES
    locked, timeout,
    labelled,     \* the entry shown by the view "items" has a label
    unused        \* history: seconds unlocked since a PIN was given or a token shown

otp_vars == <<locked, timeout, labelled, unused>>
all_vars == <<vars, otp_vars>>

OtpInit ==
    /\ Init
    /\ locked = TRUE /\ timeout = 0 /\ labelled = TRUE /\ unused = 0

-----------------------------------------------------------------------------
svc_otp_unlock == locked' = FALSE /\ timeout' = OtpTimeout /\ unused' = 0
svc_otp_lock == locked' = TRUE /\ UNCHANGED <<timeout, unused>>

\* The main function of the view of tokens, at its end.
ShowToken == IF labelled' THEN timeout' = OtpTimeout /\ unused' = 0
                          ELSE UNCHANGED <<timeout, unused>>

\* pin_leave: the edit of the PIN ends, with whatever the number is by then.
PinGiven(K) == screen = "otp" /\ Editing /\ ~StillAdjusting(K)

Selected(K, item) == screen = "otp" /\ ~State.adj /\ K = {"ENTER"} /\ Item = item

\* A key in one of the two views, or in another app.
OtpPress(K) ==
    /\ Press(K)
    /\ Selected(K, "items") => (screen' = "items" <=> ~locked)
    /\ \/ PinGiven(K) /\ svc_otp_unlock /\ UNCHANGED labelled
       \/ Selected(K, "loc") /\ svc_otp_lock /\ UNCHANGED labelled
       \/ /\ screen = "items" /\ UNCHANGED locked
          /\ IF Sideways(K) THEN labelled' \in BOOLEAN ELSE UNCHANGED labelled
          /\ ShowToken
       \/ /\ ~PinGiven(K) /\ ~Selected(K, "loc") /\ screen # "items"
          /\ UNCHANGED otp_vars

\* A pass with a tick that is no second's, and without a key.
QuietPass ==
    /\ screen = "items" /\ UNCHANGED <<vars, locked, labelled>> /\ ShowToken

\* (mutant: the end of the timeout is not noticed)
svc_otp_process_NotLocked ==
    IF timeout > 0 THEN timeout' = timeout - 1 /\ UNCHANGED locked
    ELSE UNCHANGED <<locked, timeout>>

svc_otp_process ==
    IF timeout > 0 THEN timeout' = timeout - 1 /\ UNCHANGED locked
    ELSE locked' = TRUE /\ UNCHANGED timeout

Capped(n) == IF n > OtpTimeout + 1 THEN OtpTimeout + 1 ELSE n

\* The first part of the pass that a second begins with; what the view then
\* does is a QuietPass or a step of its own.
Second ==
    /\ svc_otp_process
    /\ unused' = IF locked THEN unused ELSE Capped(unused + 1)
    /\ UNCHANGED <<vars, labelled>>

Home == ReturnHome /\ UNCHANGED otp_vars

OtpNext == (\E K \in Events : OtpPress(K)) \/ QuietPass \/ Second \/ Home

OtpSpec == OtpInit /\ [][OtpNext]_all_vars /\ WF_all_vars(Second)

-----------------------------------------------------------------------------
(* Properties.                                                             *)

\* The key is kept no longer than the timeout after a token was last shown or the
\* PIN given: an edit of the PIN that the return home interrupts, leaving the
\* view and coming back to it, an entry without a label in it and locking by
\* hand do not prolong it.
KeyNotKept == ~locked => unused <= OtpTimeout

\* If no PIN is given and no token shown any more the key is forgotten for
\* good, whichever way the view was left.
KeyForgotten == <>[][locked' \/ unused' # 0]_otp_vars => <>[]locked
================================================================================
