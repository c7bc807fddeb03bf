---------------------------- MODULE AlarmDelivery ----------------------------
(***************************************************************************)
(* What the syslog pipeline promises the people in the Slack channel,      *)
(* without saying how: a stored alert is shown at most once, in a message  *)
(* about its own alarm; a message is tracked by one incident, which is     *)
(* open or paused until it is resolved, and resolved for good.             *)
(* SyslogSlack implements this specification (SyslogSlack!Delivery).       *)
(***************************************************************************)
EXTENDS Naturals

CONSTANTS Alert, Fp, Message

VARIABLES
    alert,    \* [Alert -> {"new", "stored", "shown", "linked"}]
    home,     \* [Alert -> Message or 0]: the message that shows the alert
    status    \* [Message -> {"none", "posted", "open", "paused", "resolved"}]

vars == <<alert, home, status>>

Init ==
    /\ alert = [a \in Alert |-> "new"]
    /\ home = [a \in Alert |-> 0]
    /\ status = [m \in Message |-> "none"]

Store(a) ==
    /\ alert[a] = "new"
    /\ alert' = [alert EXCEPT ![a] = "stored"]
    /\ UNCHANGED <<home, status>>

(* A batch: stored alerts of one alarm, none of them shown before.          *)
Show(m) ==
    \E S \in (SUBSET {a \in Alert : alert[a] = "stored"}) \ {{}} :
        /\ home' = [a \in Alert |-> IF a \in S THEN m ELSE home[a]]
        /\ alert' = [a \in Alert |-> IF a \in S THEN "shown" ELSE alert[a]]
        /\ \A a \in S, b \in Alert : home'[b] = m => Fp[a] = Fp[b]

ShowInNewMessage(m) ==
    /\ status[m] = "none"
    /\ status' = [status EXCEPT ![m] = "posted"]
    /\ Show(m)

(* A resolved message can still get the alerts of a flush that looked it up *)
(* while it was open.                                                       *)
ShowInThread(m) ==
    /\ status[m] \in {"open", "paused", "resolved"}
    /\ UNCHANGED status
    /\ Show(m)

(* The incident row is saved after the message is visible. *)
Track(m) ==
    /\ status[m] = "posted"
    /\ status' = [status EXCEPT ![m] = "open"]
    /\ UNCHANGED <<alert, home>>

Link ==
    /\ \E S \in SUBSET {a \in Alert : alert[a] = "shown"} :
          /\ alert' = [a \in Alert |-> IF a \in S THEN "linked" ELSE alert[a]]
          /\ \A a \in S : status[home[a]] \in {"open", "paused", "resolved"}
    /\ UNCHANGED <<home, status>>

Change(m, from, to) ==
    /\ status[m] \in from
    /\ status' = [status EXCEPT ![m] = to]
    /\ UNCHANGED <<alert, home>>

Pause(m) == Change(m, {"open"}, "paused")
Unpause(m) == Change(m, {"paused"}, "open")
Resolve(m) == Change(m, {"open", "paused"}, "resolved")

Next ==
    \/ \E a \in Alert : Store(a)
    \/ Link
    \/ \E m \in Message : ShowInNewMessage(m) \/ ShowInThread(m)
    \/ \E m \in Message : Track(m) \/ Pause(m) \/ Unpause(m) \/ Resolve(m)

Spec == Init /\ [][Next]_vars
=============================================================================
