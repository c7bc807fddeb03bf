-------------------------- MODULE Connections_proofs --------------------------
(***************************************************************************)
(* Proofs about the two parts of the program that keep connections: the    *)
(* pool of SSH sessions and the hub of the dashboard's WebSockets.         *)
(*                                                                         *)
(* SSHPool, for any hosts and goroutines and every value of the bounds:    *)
(* that a session has one user follows from the entry mutexes only because *)
(* no two entries ever share a session; that commands reach the right      *)
(* device, only because an entry keeps its host when its session is        *)
(* replaced.  IInv says both of every entry that the map or a goroutine    *)
(* refers to.                                                              *)
(*                                                                         *)
(* WebSocketHub, for every set of clients, every capacity of the channels  *)
(* and every number of messages: GaplessFeed speaks of what browsers       *)
(* received.  HubIInv follows a message on its whole way: the queue holds  *)
(* the last messages broadcast, the hub passes on the one before them, and *)
(* what a client was fed last, still in its buffer or received, is that    *)
(* one or the one before.                                                  *)
(***************************************************************************)
EXTENDS SSHPool, WebSocketHub, SequenceTheorems, TLAPS
-----------------------------------------------------------------------------
(* SSHPool *)

(* Entries get the numbers of sessions that were dialled, one each.         *)
Fresh ==
    \A e \in Entry : driver[e] <= dialled /\ (e > dialled => driver[e] = None)
OwnSession ==
    \A e, f \in Entry : driver[e] = driver[f] /\ driver[e] # None => e = f

(* An entry of the map has a session with its host.                         *)
Mapped ==
    \A h \in Host : conns[h] # None =>
        driver[conns[h]] # None /\ target[driver[conns[h]]] = h

(* So has the entry a goroutine has found; a session that is about to be    *)
(* replaced is closed.                                                      *)
Found(g) == proc[g].pc = "enter" \/ Inside(g)
Held ==
    \A g \in Worker :
        /\ proc[g].pc # "idle" => proc[g].host \in Host
        /\ Found(g) =>
             /\ proc[g].entry \in Entry
             /\ driver[proc[g].entry] # None
             /\ target[driver[proc[g].entry]] = proc[g].host
        /\ proc[g].pc = "redial" => driver[proc[g].entry] \notin live

IInv == Types /\ LocksHeld /\ Fresh /\ OwnSession /\ Mapped /\ Held /\ NoSessionForgotten

-----------------------------------------------------------------------------

LEMMA InitIInv == Init => IInv
  BY PoolAssumption DEF Init, IInv, Types, LocksHeld, Fresh, OwnSession, Mapped, Held,
     NoSessionForgotten, Found, Inside, Idle, ProcRecord, Worker, Goroutine, Session, Entry, None

(* A step of one goroutine's call that leaves map, drivers and sessions as  *)
(* they are.                                                                *)
Quiet == UNCHANGED <<conns, driver, live, dialled, target>>

LEMMA QuietStep ==
    ASSUME IInv, Quiet, Types', LocksHeld', Held'
    PROVE  IInv'
  BY DEF IInv, Quiet, Fresh, OwnSession, Mapped, NoSessionForgotten, Entry, Session

LEMMA CallStep ==
    ASSUME IInv, NEW c \in Caller, NEW h \in Host, Call(c, h)
    PROVE  IInv'
<1> USE DEF IInv, Call, Idle, Worker, Goroutine, poolVars, deviceVars
<1>1. Types' BY PoolAssumption DEF Types, ProcRecord
<1>2. LocksHeld' BY DEF Types, LocksHeld, Inside, ProcRecord
<1>3. Held' BY DEF Types, Held, Found, Inside, ProcRecord
<1> QED BY <1>1, <1>2, <1>3, QuietStep DEF Quiet

LEMMA FindEntryStep ==
    ASSUME IInv, NEW c \in Caller, FindEntry(c)
    PROVE  IInv'
<1> USE DEF IInv, FindEntry, Continue, Worker, Goroutine, poolVars, deviceVars, ElseUnchanged
<1>0. proc[c].host \in Host BY DEF Held
<1>1. Types' BY <1>0 DEF Types, ProcRecord
<1>2. LocksHeld' BY <1>0 DEF Types, LocksHeld, Inside, ProcRecord
<1>3. Held'
  <2>1. conns[proc[c].host] # None =>
          /\ conns[proc[c].host] \in Entry
          /\ driver[conns[proc[c].host]] # None
          /\ target[driver[conns[proc[c].host]]] = proc[c].host
    BY <1>0 DEF Types, Mapped
  <2> QED BY <1>0, <2>1, ZenonT(60) DEF Types, Held, Found, Inside, ProcRecord
<1> QED BY <1>1, <1>2, <1>3, QuietStep DEF Quiet

LEMMA LockPoolStep ==
    ASSUME IInv, NEW c \in Caller, LockPool(c)
    PROVE  IInv'
<1> USE DEF IInv, LockPool, Continue, Goto, Worker, Goroutine, deviceVars, ElseUnchanged
<1>0. proc[c].host \in Host BY DEF Held
<1>1. Types' BY <1>0 DEF Types, ProcRecord
<1>2. LocksHeld' BY <1>0, PoolAssumption DEF Types, LocksHeld, Inside, ProcRecord
<1>3. Held' BY <1>0 DEF Types, Held, Mapped, Found, Inside, ProcRecord
<1> QED BY <1>1, <1>2, <1>3, QuietStep DEF Quiet

LEMMA DialNewStep ==
    ASSUME IInv, NEW c \in Caller, DialNew(c)
    PROVE  IInv'
<1> USE DEF IInv, DialNew, Continue, ElseUnchanged, None
<1>0. /\ proc[c].host \in Host /\ proc[c].pc = "dial" /\ pmu = c /\ c \in Worker
      /\ dialled \in Nat
  BY PoolAssumption DEF Held, LocksHeld, Types, Worker
<1>1. CASE Dials(proc[c].host)
           /\ conns' = [conns EXCEPT ![proc[c].host] = dialled + 1]
           /\ driver' = [driver EXCEPT ![dialled + 1] = dialled + 1]
           /\ Continue(c, "enter", dialled + 1)
  <2> USE <1>1, <1>0 DEF Dials
  <2> DEFINE s == dialled + 1
  <2>1. s \in Entry /\ s \in Session /\ driver[s] = None
    BY PoolAssumption DEF Fresh, Types, Entry, Session
  <2>2. \A e \in Entry : driver'[e] = IF e = s THEN s ELSE driver[e]
    BY <2>1 DEF Types
  <2>3. \A t \in Session : target'[t] = IF t = s THEN proc[c].host ELSE target[t]
    BY <2>1 DEF Types
  <2>4. Types' BY <2>1, PoolAssumption DEF Types, ProcRecord, Goroutine, Worker
  <2>5. LocksHeld'
    <3>1. pmu' = Nobody /\ Nobody \notin Caller /\ emu' = emu
      BY PoolAssumption DEF Goroutine, Worker
    <3>2. \A d \in Caller : proc'[d].pc # "dial"
      BY <3>1 DEF Types, LocksHeld, ProcRecord, Worker
    <3>3. \A g \in Worker, e \in Entry : emu'[e] = g <=> Inside(g)' /\ proc'[g].entry = e
      BY <3>1 DEF Types, LocksHeld, Inside, ProcRecord
    <3> QED BY <3>1, <3>2, <3>3 DEF LocksHeld
  <2>6. Fresh' BY <2>2, <2>1 DEF Fresh, Types, Entry, Session
  <2>7. OwnSession' BY <2>2, <2>1 DEF OwnSession, Fresh, Types, Entry, Session
  <2>8. Mapped'
    <3> SUFFICES ASSUME NEW h \in Host, conns'[h] # None
                 PROVE  driver'[conns'[h]] # None /\ target'[driver'[conns'[h]]] = h
      BY DEF Mapped
    <3>1. CASE h = proc[c].host BY <3>1, <2>1, <2>2, <2>3 DEF Types
    <3>2. CASE h # proc[c].host
      <4>1. conns'[h] = conns[h] /\ conns[h] \in Entry BY <3>2 DEF Types
      <4>2. conns[h] # s /\ driver[conns[h]] # s /\ driver[conns[h]] \in Session
        BY <4>1, <2>1 DEF Mapped, Fresh, Types, Entry, Session
      <4> QED BY <4>1, <4>2, <2>2, <2>3 DEF Mapped
    <3> QED BY <3>1, <3>2
  <2>9. Held'
    <3> SUFFICES ASSUME NEW g \in Worker
                 PROVE  /\ proc'[g].pc # "idle" => proc'[g].host \in Host
                        /\ Found(g)' =>
                             /\ proc'[g].entry \in Entry
                             /\ driver'[proc'[g].entry] # None
                             /\ target'[driver'[proc'[g].entry]] = proc'[g].host
                        /\ proc'[g].pc = "redial" => driver'[proc'[g].entry] \notin live'
      BY DEF Held
    <3>1. CASE g = c BY <3>1, <2>1, <2>2, <2>3 DEF Types, ProcRecord, Found, Inside
    <3>2. CASE g # c
      <4>1. proc'[g] = proc[g] BY <3>2 DEF Types
      <4>2. Found(g) => /\ proc[g].entry \in Entry /\ proc[g].entry # s
                        /\ driver[proc[g].entry] # s /\ driver[proc[g].entry] \in Session
        BY <2>1 DEF Held, Fresh, Types, Entry, Session
      <4>3. Found(g)' => Found(g) BY <4>1 DEF Found, Inside
      <4>4. proc[g].pc = "redial" => Found(g) BY DEF Found, Inside
      <4> QED BY <4>1, <4>2, <4>3, <4>4, <2>2, <2>3 DEF Held
    <3> QED BY <3>1, <3>2
  <2>10. NoSessionForgotten'
    BY <2>1, <2>2 DEF NoSessionForgotten, Types, Entry, Session
  <2> QED BY <2>4, <2>5, <2>6, <2>7, <2>8, <2>9, <2>10
<1>2. CASE proc' = [proc EXCEPT ![c] = Idle] /\ UNCHANGED <<conns, driver, deviceVars>>
  <2> USE <1>2, <1>0 DEF Idle
  <2>1. Types' BY PoolAssumption DEF Types, ProcRecord, Goroutine, Worker, deviceVars
  <2>2. LocksHeld'
    <3>1. pmu' = Nobody /\ Nobody \notin Caller /\ emu' = emu
      BY PoolAssumption DEF Goroutine, Worker
    <3>2. \A d \in Caller : proc'[d].pc # "dial"
      BY <3>1 DEF Types, LocksHeld, ProcRecord, Worker
    <3>3. \A g \in Worker, e \in Entry : emu'[e] = g <=> Inside(g)' /\ proc'[g].entry = e
      BY <3>1 DEF Types, LocksHeld, Inside, ProcRecord
    <3> QED BY <3>1, <3>2, <3>3 DEF LocksHeld
  <2>3. Held' BY DEF Types, Held, Found, Inside, ProcRecord, deviceVars
  <2> QED BY <2>1, <2>2, <2>3, QuietStep DEF Quiet, deviceVars
<1> QED BY <1>1, <1>2

LEMMA EnterStep ==
    ASSUME IInv, NEW g \in Worker, Enter(g)
    PROVE  IInv'
<1> USE DEF IInv, Enter, Goto, Continue, Goroutine, deviceVars, ElseUnchanged
<1>0. /\ proc[g].host \in Host /\ proc[g].entry \in Entry /\ proc[g].pc = "enter"
      /\ g # Nobody
  BY PoolAssumption DEF Held, Found
<1>1. Types' BY <1>0 DEF Types, ProcRecord
<1>2. LocksHeld'
  <2>1. \A h \in Worker, e \in Entry : emu'[e] = h <=> Inside(h)' /\ proc'[h].entry = e
    <3> TAKE h \in Worker, e \in Entry
    <3>1. ~Inside(g) BY <1>0 DEF Inside
    <3>2. emu[e] = h <=> Inside(h) /\ proc[h].entry = e BY DEF LocksHeld
    <3>3. h \in Worker /\ h # Nobody /\ emu[proc[g].entry] = Nobody
      BY PoolAssumption
    <3>4. proc'[g].pc = "send" /\ proc'[g].entry = proc[g].entry
      BY DEF Types, ProcRecord
    <3>5. h # g => proc'[h] = proc[h] BY DEF Types
    <3>6. emu'[e] = IF e = proc[g].entry THEN g ELSE emu[e]
      BY <1>0 DEF Types
    <3>7. CASE h = g BY <3>1, <3>2, <3>4, <3>6, <3>7 DEF Inside
    <3>8. CASE h # g BY <3>2, <3>3, <3>5, <3>6, <3>8 DEF Inside
    <3> QED BY <3>7, <3>8
  <2>2. \A d \in Caller : proc'[d].pc = "dial" <=> proc[d].pc = "dial"
    BY <1>0 DEF Types, ProcRecord, Worker
  <2> QED BY <2>1, <2>2 DEF LocksHeld
<1>3. Held' BY <1>0 DEF Types, Held, Found, Inside, ProcRecord
<1> QED BY <1>1, <1>2, <1>3, QuietStep DEF Quiet

(* A step inside the entry's mutex that changes only the goroutine.         *)
LEMMA GotoStep ==
    ASSUME IInv, NEW g \in Worker, Inside(g), NEW pc, Goto(g, pc),
           pc \in {"send", "close", "redial", "drop", "again", "leave"},
           pc = "redial" => driver[proc[g].entry] \notin live',
           live' \subseteq live,
           UNCHANGED <<poolVars, dialled, target>>, ElseUnchanged
    PROVE  IInv'
<1> USE DEF IInv, Goto, Continue, Goroutine, poolVars, ElseUnchanged
<1>0. /\ proc[g].host \in Host /\ proc[g].entry \in Entry
      /\ proc[g].pc \notin {"idle", "dial"}
  BY DEF Held, Found, Inside
<1>1. Types' BY <1>0 DEF Types, ProcRecord
<1>2. \A h \in Worker : /\ Inside(h)' <=> Inside(h)
                        /\ proc'[h].entry = proc[h].entry /\ proc'[h].host = proc[h].host
                        /\ proc'[h].pc = "dial" <=> proc[h].pc = "dial"
                        /\ proc'[h].pc = "idle" <=> proc[h].pc = "idle"
                        /\ Found(h)' <=> Found(h)
                        /\ h # g => proc'[h] = proc[h]
  BY <1>0 DEF Types, Inside, Found, ProcRecord
<1>3. LocksHeld' BY <1>2 DEF LocksHeld, Worker
<1>4. Held'
  <2>1. proc'[g].pc = pc BY DEF Types
  <2> QED BY <1>2, <2>1 DEF Held
<1>5. Fresh' /\ OwnSession' /\ Mapped' /\ NoSessionForgotten'
  BY DEF Fresh, OwnSession, Mapped, NoSessionForgotten, Entry
<1> QED BY <1>1, <1>3, <1>4, <1>5

LEMMA SendStep ==
    ASSUME IInv, NEW g \in Worker, Send(g)
    PROVE  IInv'
  BY GotoStep DEF Send, Inside, poolVars, deviceVars

LEMMA CloseBrokenStep ==
    ASSUME IInv, NEW g \in Worker, CloseBroken(g)
    PROVE  IInv'
<1>1. live' \subseteq live /\ driver[proc[g].entry] \notin live' BY DEF CloseBroken
<1>2. CASE g = KeepAlive BY <1>1, <1>2, GotoStep DEF CloseBroken, Inside
<1>3. CASE g # KeepAlive BY <1>1, <1>3, GotoStep DEF CloseBroken, Inside
<1> QED BY <1>2, <1>3

LEMMA SendAgainStep ==
    ASSUME IInv, NEW g \in Worker, SendAgain(g)
    PROVE  IInv'
  BY GotoStep DEF SendAgain, Inside, poolVars, deviceVars

LEMMA RedialStep ==
    ASSUME IInv, NEW c \in Caller, Redial(c)
    PROVE  IInv'
<1> USE DEF Redial
<1>1. CASE Goto(c, "drop") /\ UNCHANGED <<driver, deviceVars>>
  BY <1>1, GotoStep DEF Inside, poolVars, deviceVars, Worker
<1>2. CASE /\ Dials(proc[c].host)
           /\ driver' = [driver EXCEPT ![proc[c].entry] = dialled + 1]
           /\ Goto(c, "again")
  <2> USE <1>2 DEF IInv, Dials, Goto, Continue, ElseUnchanged
  <2> DEFINE s == dialled + 1
             e == proc[c].entry
  <2>0. /\ c \in Worker /\ Inside(c) /\ proc[c].pc = "redial"
        /\ proc[c].host \in Host /\ e \in Entry /\ driver[e] # None
        /\ target[driver[e]] = proc[c].host /\ driver[e] \notin live
        /\ dialled \in Nat /\ s \in Session
    BY PoolAssumption DEF Held, Found, Inside, Types, Worker, Session
  <2>1. \A f \in Entry : driver'[f] = IF f = e THEN s ELSE driver[f]
    BY <2>0 DEF Types
  <2>2. \A t \in Session : target'[t] = IF t = s THEN proc[c].host ELSE target[t]
    BY <2>0 DEF Types
  <2>3. \A f \in Entry : driver[f] # s /\ (driver[f] # None => driver[f] \in Session)
    BY <2>0 DEF Types, Fresh
  <2>4. \A h \in Worker : /\ Inside(h)' <=> Inside(h)
                          /\ proc'[h].entry = proc[h].entry /\ proc'[h].host = proc[h].host
                          /\ proc'[h].pc = "dial" <=> proc[h].pc = "dial"
                          /\ proc'[h].pc = "idle" <=> proc[h].pc = "idle"
                          /\ Found(h)' <=> Found(h)
                          /\ h # c => proc'[h] = proc[h]
    BY <2>0 DEF Types, Inside, Found, ProcRecord
  <2>5. Types' BY <2>0 DEF Types, ProcRecord, Session
  <2>6. LocksHeld' BY <2>4 DEF LocksHeld, Worker
  <2>7. Fresh' BY <2>0, <2>1, <2>3 DEF Fresh, Types, Entry, Session, None
  <2>8. OwnSession' BY <2>1, <2>3 DEF OwnSession
  <2>9. Mapped'
    <3> SUFFICES ASSUME NEW h \in Host, conns[h] # None
                 PROVE  driver'[conns[h]] # None /\ target'[driver'[conns[h]]] = h
      BY DEF Mapped
    <3>1. conns[h] \in Entry /\ driver[conns[h]] # None /\ target[driver[conns[h]]] = h
      BY DEF Types, Mapped
    <3>2. CASE conns[h] = e BY <3>1, <3>2, <2>0, <2>1, <2>2 DEF None
    <3>3. CASE conns[h] # e BY <3>1, <3>3, <2>1, <2>2, <2>3
    <3> QED BY <3>2, <3>3
  <2>10. Held'
    <3> SUFFICES ASSUME NEW g \in Worker
                 PROVE  /\ proc'[g].pc # "idle" => proc'[g].host \in Host
                        /\ Found(g)' =>
                             /\ proc'[g].entry \in Entry
                             /\ driver'[proc'[g].entry] # None
                             /\ target'[driver'[proc'[g].entry]] = proc'[g].host
                        /\ proc'[g].pc = "redial" => driver'[proc'[g].entry] \notin live'
      BY DEF Held
    <3>1. CASE g = c
      BY <3>1, <2>0, <2>1, <2>2 DEF Types, None
    <3>2. CASE g # c /\ Found(g) /\ proc[g].entry = e
      <4>1. proc[g].pc # "redial" BY <3>2, <2>0 DEF LocksHeld, Inside
      <4>2. target[driver[e]] = proc[g].host BY <3>2 DEF Held
      <4> QED BY <4>1, <4>2, <3>2, <2>0, <2>1, <2>2, <2>4, SMTT(60) DEF Held, None
    <3>3. CASE g # c /\ Found(g) /\ proc[g].entry # e
      BY <3>3, <2>0, <2>1, <2>2, <2>3, <2>4, SMTT(60) DEF Held
    <3>4. CASE g # c /\ ~Found(g)
      BY <3>4, <2>4 DEF Held, Found, Inside
    <3> QED BY <3>1, <3>2, <3>3, <3>4
  <2>11. NoSessionForgotten'
    BY <2>0, <2>1 DEF NoSessionForgotten, Types
  <2> QED BY <2>5, <2>6, <2>7, <2>8, <2>9, <2>10, <2>11
<1> QED BY <1>1, <1>2

LEMMA DropStep ==
    ASSUME IInv, NEW g \in Worker, Drop(g)
    PROVE  IInv'
<1> USE DEF IInv, Drop, Goto, Continue, deviceVars, ElseUnchanged
<1>0. /\ proc[g].host \in Host /\ proc[g].entry \in Entry /\ Inside(g)
      /\ proc[g].pc = "drop"
  BY DEF Held, Found, Inside
<1>1. Types' BY <1>0 DEF Types, ProcRecord
<1>2. \A h \in Worker : /\ Inside(h)' <=> Inside(h)
                        /\ proc'[h].entry = proc[h].entry /\ proc'[h].host = proc[h].host
                        /\ proc'[h].pc = "dial" <=> proc[h].pc = "dial"
                        /\ proc'[h].pc = "idle" <=> proc[h].pc = "idle"
                        /\ proc'[h].pc = "redial" <=> proc[h].pc = "redial"
                        /\ Found(h)' <=> Found(h)
  BY <1>0 DEF Types, Inside, Found, ProcRecord
<1>3. LocksHeld' BY <1>2 DEF LocksHeld, Worker
<1>4. Held' BY <1>2 DEF Held
<1>5. Mapped' BY <1>0 DEF Mapped, Types
<1>6. Fresh' /\ OwnSession' /\ NoSessionForgotten'
  BY DEF Fresh, OwnSession, NoSessionForgotten, Entry
<1> QED BY <1>1, <1>3, <1>4, <1>5, <1>6

LEMMA LeaveStep ==
    ASSUME IInv, NEW g \in Worker, Leave(g)
    PROVE  IInv'
<1> USE DEF IInv, Leave, Idle, deviceVars, ElseUnchanged
<1>0. /\ proc[g].entry \in Entry /\ Inside(g) /\ Nobody \notin Worker
      /\ proc[g].pc = "leave"
  BY PoolAssumption DEF Held, Found, Inside, Goroutine
<1>1. Types' BY <1>0 DEF Types, ProcRecord
<1>2. LocksHeld'
  <2>1. \A h \in Worker, e \in Entry : emu'[e] = h <=> Inside(h)' /\ proc'[h].entry = e
    BY <1>0 DEF Types, LocksHeld, Inside, ProcRecord
  <2>2. \A d \in Caller : proc'[d].pc = "dial" <=> proc[d].pc = "dial"
    BY <1>0 DEF Types, ProcRecord, Worker
  <2> QED BY <2>1, <2>2 DEF LocksHeld
<1>3. Held' BY <1>0 DEF Types, Held, Found, Inside, ProcRecord
<1> QED BY <1>1, <1>2, <1>3, QuietStep DEF Quiet

LEMMA CheckHostStep ==
    ASSUME IInv, NEW h \in Host, CheckHost(h)
    PROVE  IInv'
<1> USE DEF IInv, CheckHost, Worker, Goroutine, poolVars, deviceVars
<1>0. conns[h] # None =>
        /\ conns[h] \in Entry /\ driver[conns[h]] # None /\ target[driver[conns[h]]] = h
  BY DEF Types, Mapped
<1>1. Types' BY <1>0 DEF Types, ProcRecord
<1>2. LocksHeld' BY <1>0, PoolAssumption DEF Types, LocksHeld, Inside, ProcRecord
<1>3. Held' BY <1>0 DEF Types, Held, Found, Inside, ProcRecord
<1> QED BY <1>1, <1>2, <1>3, QuietStep DEF Quiet

LEMMA CloseAllStep ==
    ASSUME IInv, CloseAll
    PROVE  IInv'
<1> USE DEF IInv, CloseAll
<1>1. Types' BY DEF Types
<1>2. LocksHeld' BY DEF LocksHeld, Inside
<1>3. Fresh' /\ OwnSession' /\ NoSessionForgotten'
  BY DEF Fresh, OwnSession, NoSessionForgotten, Entry
<1>4. Mapped' BY DEF Mapped
<1>5. Held' BY DEF Held, Found, Inside
<1> QED BY <1>1, <1>2, <1>3, <1>4, <1>5

LEMMA OtherSteps ==
    ASSUME IInv, StartRound \/ StopKeepAlive \/ UNCHANGED vars
    PROVE  IInv'
<1> USE DEF IInv, StartRound, StopKeepAlive, vars, poolVars, deviceVars
<1>1. Types' BY DEF Types
<1>2. LocksHeld' BY DEF LocksHeld, Inside
<1>3. Held' BY DEF Held, Found, Inside
<1> QED BY <1>1, <1>2, <1>3, QuietStep DEF Quiet

-----------------------------------------------------------------------------

LEMMA Inductive == IInv /\ [Next]_vars => IInv'
<1> SUFFICES ASSUME IInv, [Next]_vars PROVE IInv' OBVIOUS
<1>1. ASSUME NEW c \in Caller, CallerStep(c) PROVE IInv'
  <2>1. c \in Worker BY DEF Worker
  <2> QED
    BY <1>1, <2>1, FindEntryStep, LockPoolStep, DialNewStep, EnterStep, SendStep,
       CloseBrokenStep, RedialStep, DropStep, SendAgainStep, LeaveStep DEF CallerStep
<1>2. ASSUME NEW c \in Caller, NEW h \in Host, Call(c, h) PROVE IInv'
  BY <1>2, CallStep
<1>3. ASSUME KeepAliveStep PROVE IInv'
  <2>1. KeepAlive \in Worker BY DEF Worker
  <2> QED
    BY <1>3, <2>1, OtherSteps, CheckHostStep, EnterStep, SendStep, CloseBrokenStep,
       DropStep, LeaveStep DEF KeepAliveStep
<1>4. CASE StopKeepAlive BY <1>4, OtherSteps
<1>5. CASE CloseAll BY <1>5, CloseAllStep
<1>6. CASE AtRest \/ UNCHANGED vars BY <1>6, OtherSteps DEF AtRest
<1> QED BY <1>1, <1>2, <1>3, <1>4, <1>5, <1>6 DEF Next

LEMMA Invariance == Spec => []IInv
<1>1. Init => IInv BY InitIInv
<1>2. IInv /\ [Next]_vars => IInv' BY Inductive
<1> QED BY <1>1, <1>2, PTL DEF Spec

LEMMA IInvImpliesOneUser == IInv => OneUserPerSession
<1> SUFFICES ASSUME IInv, NEW g \in Worker, NEW k \in Worker, Inside(g), Inside(k),
                    driver[proc[g].entry] = driver[proc[k].entry],
                    driver[proc[g].entry] # None
             PROVE  g = k
  BY DEF OneUserPerSession
<1>1. proc[g].entry \in Entry /\ proc[k].entry \in Entry BY DEF IInv, Held, Found
<1>2. proc[g].entry = proc[k].entry BY <1>1 DEF IInv, OwnSession
<1> QED BY <1>1, <1>2 DEF IInv, LocksHeld

(* Types hold, and the two kinds of mutex (pool.go:16 and 22) are held by   *)
(* the goroutines that are between Lock and Unlock and by nobody else.      *)
THEOREM TypeCorrect == Spec => []TypeOK
<1>1. IInv => TypeOK BY DEF IInv, TypeOK
<1> QED BY <1>1, Invariance, PTL

(* A terminal session has at most one user, whatever dials and commands     *)
(* fail, entries are dropped, and the pool is closed meanwhile.             *)
THEOREM SessionsNotShared == Spec => []OneUserPerSession
<1> QED BY IInvImpliesOneUser, Invariance, PTL

(* Commands go to the device they were meant for.                           *)
THEOREM CommandsReachTheirDevice == Spec => []RightDevice
<1>1. IInv => RightDevice BY DEF IInv, Held, Found, RightDevice
<1> QED BY <1>1, Invariance, PTL

(* No open session is lost by a re-dial: each is the driver of an entry.    *)
THEOREM SessionsKept == Spec => []NoSessionForgotten
<1>1. IInv => NoSessionForgotten BY DEF IInv
<1> QED BY <1>1, Invariance, PTL
-----------------------------------------------------------------------------
(* WebSocketHub *)

(* The last message the hub took from the queue, 0 before the first.        *)
Taken == sent - Len(queue)

Consecutive(s) == \A n \in 1..(Len(s) - 1) : s[n + 1] = s[n] + 1

(* The queue holds the last messages in order, the hub works on the one     *)
(* before them, and only for clients that are registered.                   *)
HubInv ==
    /\ Len(queue) <= sent
    /\ \A n \in 1..Len(queue) : queue[n] = Taken + n
    /\ hub # Selecting => hub.msg = Taken /\ hub.msg \in Message
    /\ hub.todo \subseteq clients

(* What the hub gave to client c last: it owes those in todo one message.   *)
Fed(c) == IF c \in hub.todo THEN Taken - 1 ELSE Taken

(* Nothing is prepared for a client before the hub registers it; then what  *)
(* it received, what waits in its buffer and what the hub gave it last join *)
(* up.  A connection that is not up any more may lose messages.             *)
FeedInv(c) ==
    /\ conn[c] = "none" => reader[c] = "none"
    /\ reader[c] \in {"none", "register"} =>
         buffer[c] = <<>> /\ received[c] = <<>> /\ c \notin closed
    /\ Consecutive(buffer[c]) /\ Consecutive(received[c])
    /\ conn[c] = "up" /\ received[c] # <<>> /\ buffer[c] # <<>> =>
         buffer[c][1] = received[c][Len(received[c])] + 1
    /\ c \in clients /\ buffer[c] # <<>> => buffer[c][Len(buffer[c])] = Fed(c)
    /\ c \in clients /\ conn[c] = "up" /\ buffer[c] = <<>> /\ received[c] # <<>> =>
         received[c][Len(received[c])] = Fed(c)

HubIInv == HubTypeOK /\ HubInv /\ \A c \in Client : FeedInv(c)

(* The hub never sends on a channel that is closed, nor closes it again:    *)
(* either would panic.                                                      *)
NeverOnClosed == hub.todo \cap closed = {} /\ clients \cap closed = {}

-----------------------------------------------------------------------------
(* Sequences of numbers *)

LEMMA EmptyConsecutive == Consecutive(<<>>)
  BY DEF Consecutive

LEMMA AppendConsecutive ==
    ASSUME NEW s \in Seq(Message), NEW x \in Message, Consecutive(s),
           s # <<>> => x = s[Len(s)] + 1
    PROVE  /\ Append(s, x) \in Seq(Message) /\ Append(s, x) # <<>>
           /\ Len(Append(s, x)) = Len(s) + 1
           /\ Append(s, x)[Len(s) + 1] = x
           /\ Append(s, x)[1] = IF s = <<>> THEN x ELSE s[1]
           /\ Consecutive(Append(s, x))
<1> DEFINE t == Append(s, x)
<1>1. /\ t \in Seq(Message) /\ t # <<>> /\ Len(t) = Len(s) + 1 /\ Len(s) \in Nat
      /\ \A n \in 1..Len(s) : t[n] = s[n]
      /\ t[Len(s) + 1] = x
  BY AppendProperties, LenProperties
<1>2. s = <<>> <=> Len(s) = 0 BY EmptySeq, LenProperties
<1> HIDE DEF t
<1>3. t[1] = IF s = <<>> THEN x ELSE s[1] BY <1>1, <1>2
<1>4. ASSUME NEW n \in 1..(Len(t) - 1) PROVE t[n + 1] = t[n] + 1
  <2>1. n \in 1..Len(s) BY <1>1, <1>4
  <2>2. CASE n = Len(s) BY <1>1, <1>2, <2>1, <2>2
  <2>3. CASE n < Len(s) BY <1>1, <2>1, <2>3, SMTT(60) DEF Consecutive
  <2> QED BY <2>1, <2>2, <2>3, <1>1
<1>5. Consecutive(t) BY <1>4 DEF Consecutive
<1> QED BY <1>1, <1>3, <1>5 DEF t

LEMMA TailConsecutive ==
    ASSUME NEW s \in Seq(Message), s # <<>>, Consecutive(s)
    PROVE  /\ Tail(s) \in Seq(Message) /\ Len(Tail(s)) = Len(s) - 1
           /\ Head(s) \in Message /\ Head(s) = s[1]
           /\ Tail(s) # <<>> => /\ Tail(s)[1] = Head(s) + 1
                                /\ Tail(s)[Len(Tail(s))] = s[Len(s)]
           /\ Tail(s) = <<>> => s[Len(s)] = Head(s)
           /\ Consecutive(Tail(s))
<1> DEFINE t == Tail(s)
<1>1. /\ t \in Seq(Message) /\ Len(t) = Len(s) - 1 /\ Len(s) \in Nat /\ Len(t) \in Nat
      /\ Head(s) \in Message /\ Head(s) = s[1]
      /\ \A n \in 1..Len(t) : t[n] = s[n + 1]
  BY HeadTailProperties, LenProperties
<1>2. t = <<>> <=> Len(t) = 0 BY <1>1, EmptySeq, LenProperties
<1> HIDE DEF t
<1>3. t # <<>> => t[1] = s[1] + 1 /\ t[Len(t)] = s[Len(s)]
  BY <1>1, <1>2 DEF Consecutive
<1>4. ASSUME t = <<>> PROVE s[Len(s)] = Head(s)
  <2>1. Len(s) = 1 BY <1>1, <1>2, <1>4
  <2> QED BY <1>1, <2>1
<1>5. \A n \in 1..(Len(t) - 1) : t[n + 1] = t[n] + 1
  BY <1>1, SMTT(60) DEF Consecutive
<1>6. Consecutive(t) BY <1>5 DEF Consecutive
<1> QED BY <1>1, <1>3, <1>4, <1>6 DEF t

-----------------------------------------------------------------------------
(* One lemma per action *)

(* A client of which a step changes neither the channels nor the connection *)
(* stays as well fed as it was.                                             *)
LEMMA FeedKept ==
    ASSUME HubIInv, NEW c \in Client,
           buffer'[c] = buffer[c], received'[c] = received[c],
           conn'[c] = conn[c], reader'[c] = reader[c],
           c \in closed' => c \in closed \/ c \in clients,
           c \in clients' => c \in clients /\ Fed(c)' = Fed(c)
    PROVE  FeedInv(c)'
<1>1. FeedInv(c) BY DEF HubIInv
<1>2. c \in clients => reader[c] \notin {"none", "register"} BY DEF HubIInv, HubTypeOK
<1> QED BY <1>1, <1>2 DEF FeedInv, Consecutive

(* The hub's part of the invariant when the hub takes no step.              *)
LEMMA HubKept ==
    ASSUME HubIInv, HubUnchanged PROVE HubInv' /\ \A c \in Client : Fed(c)' = Fed(c)
  BY DEF HubIInv, HubInv, HubUnchanged, Taken, Fed, Selecting

LEMMA ConnectStep == ASSUME HubIInv, NEW c \in Client, Connect(c) PROVE HubIInv'
<1>1. /\ conn[c] = "none" /\ conn' = [conn EXCEPT ![c] = "up"]
      /\ reader' = [reader EXCEPT ![c] = "register"]
      /\ HubUnchanged /\ UNCHANGED <<queue, sent, clients, hub, buffer, closed, writer, received>>
  BY DEF Connect, HubUnchanged
<1>2. reader[c] = "none" /\ FeedInv(c) BY <1>1 DEF HubIInv, FeedInv
<1>3. HubTypeOK' BY <1>1, <1>2 DEF HubIInv, HubTypeOK
<1>4. HubInv' /\ \A d \in Client : Fed(d)' = Fed(d) BY <1>1, HubKept
<1>5. ASSUME NEW d \in Client PROVE FeedInv(d)'
  <2>1. CASE d # c BY <1>1, <1>4, <2>1, FeedKept DEF HubIInv, HubTypeOK
  <2>2. CASE d = c
    <3>1. /\ buffer'[c] = <<>> /\ received'[c] = <<>> /\ c \notin closed' /\ c \notin clients'
          /\ conn'[c] = "up" /\ reader'[c] = "register"
      BY <1>1, <1>2 DEF FeedInv, HubIInv, HubTypeOK
    <3> QED BY <2>2, <3>1, EmptyConsecutive DEF FeedInv, Consecutive
  <2> QED BY <2>1, <2>2
<1> QED BY <1>3, <1>4, <1>5 DEF HubIInv

LEMMA VanishStep == ASSUME HubIInv, NEW c \in Client, Vanish(c) PROVE HubIInv'
<1>1. /\ conn[c] = "up" /\ conn' = [conn EXCEPT ![c] = "gone"]
      /\ HubUnchanged
      /\ UNCHANGED <<queue, sent, clients, hub, buffer, closed, writer, reader, received>>
  BY DEF Vanish, HubUnchanged
<1>2. HubTypeOK' BY <1>1 DEF HubIInv, HubTypeOK
<1>3. HubInv' /\ \A d \in Client : Fed(d)' = Fed(d) BY <1>1, HubKept
<1>4. ASSUME NEW d \in Client PROVE FeedInv(d)'
  <2>1. CASE d # c BY <1>1, <1>3, <2>1, FeedKept DEF HubIInv, HubTypeOK
  <2>2. CASE d = c
    <3>1. conn'[c] = "gone" /\ FeedInv(c) BY <1>1 DEF HubIInv, HubTypeOK
    <3> QED BY <1>1, <1>3, <2>2, <3>1 DEF FeedInv, Consecutive
  <2> QED BY <2>1, <2>2
<1> QED BY <1>2, <1>3, <1>4 DEF HubIInv

LEMMA BroadcastStep == ASSUME HubIInv, Broadcast PROVE HubIInv'
<1>1. /\ sent < MaxMessages /\ Len(queue) < QueueSize
      /\ sent' = sent + 1 /\ queue' = Append(queue, sent + 1)
      /\ UNCHANGED <<clients, hub, buffer, closed, writer, reader, conn, received>>
  BY DEF Broadcast
<1>2. queue \in Seq(Message) /\ sent \in 0..MaxMessages /\ Len(queue) \in Nat
  BY LenProperties DEF HubIInv, HubTypeOK
<1>3. sent + 1 \in Message BY <1>1, <1>2, HubAssumption DEF Message
<1>4. /\ queue' \in Seq(Message) /\ Len(queue') = Len(queue) + 1
      /\ \A n \in 1..Len(queue) : queue'[n] = queue[n]
      /\ queue'[Len(queue) + 1] = sent + 1
  BY <1>1, <1>2, <1>3, AppendProperties
<1>5. Taken' = Taken BY <1>1, <1>2, <1>4 DEF Taken
<1>6. HubTypeOK' BY <1>1, <1>2, <1>3, <1>4, HubAssumption DEF HubIInv, HubTypeOK, Message
<1>7. HubInv'
  <2>1. Len(queue') <= sent' BY <1>1, <1>2, <1>4 DEF HubIInv, HubInv
  <2>2. ASSUME NEW n \in 1..Len(queue') PROVE queue'[n] = Taken' + n
    <3>1. CASE n \in 1..Len(queue) BY <1>4, <1>5, <3>1 DEF HubIInv, HubInv
    <3>2. CASE n = Len(queue) + 1 BY <1>2, <1>4, <1>5, <3>2 DEF Taken
    <3> QED BY <1>2, <1>4, <3>1, <3>2
  <2> QED BY <2>1, <2>2, <1>1, <1>5 DEF HubIInv, HubInv, Selecting
<1>8. ASSUME NEW d \in Client PROVE FeedInv(d)'
  <2>1. Fed(d)' = Fed(d) BY <1>1, <1>5 DEF Fed
  <2> QED BY <1>1, <2>1, FeedKept
<1> QED BY <1>6, <1>7, <1>8 DEF HubIInv

LEMMA RegisterStep == ASSUME HubIInv, NEW c \in Client, Register(c) PROVE HubIInv'
<1>1. /\ hub = Selecting /\ reader[c] = "register"
      /\ clients' = clients \cup {c}
      /\ reader' = [reader EXCEPT ![c] = "run"] /\ writer' = [writer EXCEPT ![c] = "run"]
      /\ UNCHANGED <<queue, sent, hub, buffer, closed, conn, received>>
  BY DEF Register
<1>2. FeedInv(c) /\ buffer[c] = <<>> /\ received[c] = <<>> /\ c \notin closed
  BY <1>1 DEF HubIInv, FeedInv
<1>3. HubTypeOK' BY <1>1, <1>2 DEF HubIInv, HubTypeOK
<1>4. HubInv' BY <1>1 DEF HubIInv, HubInv, Taken, Selecting
<1>5. ASSUME NEW d \in Client PROVE FeedInv(d)'
  <2>1. Fed(d)' = Fed(d) BY <1>1 DEF Fed, Taken
  <2>2. CASE d # c BY <1>1, <2>1, <2>2, FeedKept DEF HubIInv, HubTypeOK
  <2>3. CASE d = c
    <3>1. reader'[c] = "run" /\ conn[c] # "none" BY <1>1, <1>2 DEF HubIInv, HubTypeOK, FeedInv
    <3> QED BY <1>1, <1>2, <2>3, <3>1, EmptyConsecutive DEF FeedInv, Consecutive
  <2> QED BY <2>2, <2>3
<1> QED BY <1>3, <1>4, <1>5 DEF HubIInv

LEMMA UnregisterStep == ASSUME HubIInv, NEW c \in Client, Unregister(c) PROVE HubIInv'
<1>1. /\ hub = Selecting /\ reader[c] = "leave"
      /\ clients' = clients \ {c}
      /\ closed' = IF c \in clients THEN closed \cup {c} ELSE closed
      /\ reader' = [reader EXCEPT ![c] = "done"] /\ conn' = [conn EXCEPT ![c] = "closed"]
      /\ UNCHANGED <<queue, sent, hub, buffer, writer, received>>
  BY DEF Unregister
<1>2. c \in clients \/ c \in closed BY <1>1 DEF HubIInv, HubTypeOK
<1>3. closed' = closed \cup {c} BY <1>1, <1>2
<1>4. HubTypeOK' BY <1>1, <1>3 DEF HubIInv, HubTypeOK
<1>5. HubInv' BY <1>1 DEF HubIInv, HubInv, Taken, Selecting
<1>6. ASSUME NEW d \in Client PROVE FeedInv(d)'
  <2>1. Fed(d)' = Fed(d) BY <1>1 DEF Fed, Taken
  <2>2. CASE d # c BY <1>1, <1>3, <2>1, <2>2, FeedKept DEF HubIInv, HubTypeOK
  <2>3. CASE d = c
    <3>1. reader'[c] = "done" /\ conn'[c] = "closed" /\ c \notin clients' /\ FeedInv(c)
      BY <1>1 DEF HubIInv, HubTypeOK
    <3> QED BY <1>1, <2>3, <3>1 DEF FeedInv, Consecutive
  <2> QED BY <2>2, <2>3
<1> QED BY <1>4, <1>5, <1>6 DEF HubIInv

LEMMA TakeBroadcastStep == ASSUME HubIInv, TakeBroadcast PROVE HubIInv'
<1>1. /\ hub = Selecting /\ queue # <<>>
      /\ hub' = [msg |-> Head(queue), todo |-> clients] /\ queue' = Tail(queue)
      /\ UNCHANGED <<sent, clients, buffer, closed, writer, reader, conn, received>>
  BY DEF TakeBroadcast
<1>2. queue \in Seq(Message) /\ sent \in 0..MaxMessages /\ Len(queue) \in Nat
  BY LenProperties DEF HubIInv, HubTypeOK
<1>3. /\ queue' \in Seq(Message) /\ Len(queue') = Len(queue) - 1 /\ Len(queue') \in Nat
      /\ Head(queue) \in Message /\ Head(queue) = queue[1]
      /\ \A n \in 1..Len(queue') : queue'[n] = queue[n + 1]
  BY <1>1, <1>2, HeadTailProperties, LenProperties
<1>4. Taken' = Taken + 1 /\ Taken \in Int BY <1>1, <1>2, <1>3 DEF Taken
<1>5. Head(queue) = Taken' BY <1>2, <1>3, <1>4 DEF HubIInv, HubInv
<1>6. HubTypeOK'
  <2>1. hub' \in [msg : 0..MaxMessages, todo : SUBSET Client]
    BY <1>1, <1>3, HubAssumption DEF HubIInv, HubTypeOK, Message
  <2>2. Len(queue') <= QueueSize BY <1>2, <1>3, HubAssumption DEF HubIInv, HubTypeOK
  <2> QED BY <1>1, <1>3, <2>1, <2>2 DEF HubIInv, HubTypeOK
<1>7. HubInv'
  <2>1. Len(queue') <= sent' BY <1>1, <1>2, <1>3 DEF HubIInv, HubInv
  <2>2. ASSUME NEW n \in 1..Len(queue') PROVE queue'[n] = Taken' + n
    <3>1. n + 1 \in 1..Len(queue) BY <1>2, <1>3, <2>2
    <3>2. queue'[n] = Taken + (n + 1) BY <1>3, <2>2, <3>1 DEF HubIInv, HubInv
    <3> QED BY <1>4, <2>2, <3>2
  <2> QED BY <2>1, <2>2, <1>1, <1>3, <1>5 DEF HubInv
<1>8. ASSUME NEW d \in Client PROVE FeedInv(d)'
  <2>1. d \in clients' => d \in clients /\ Fed(d)' = Fed(d)
    BY <1>1, <1>4 DEF Fed, Selecting
  <2> QED BY <1>1, <2>1, FeedKept
<1> QED BY <1>6, <1>7, <1>8 DEF HubIInv

LEMMA PassedOnStep == ASSUME HubIInv, PassedOn PROVE HubIInv'
<1>1. /\ hub.todo = {} /\ hub' = Selecting
      /\ UNCHANGED <<queue, sent, clients, buffer, closed, writer, reader, conn, received>>
  BY DEF PassedOn
<1>2. HubTypeOK'
  <2>1. hub' \in [msg : 0..MaxMessages, todo : SUBSET Client]
    BY <1>1, HubAssumption DEF Selecting
  <2> QED BY <1>1, <2>1 DEF HubIInv, HubTypeOK
<1>3. HubInv' BY <1>1 DEF HubIInv, HubInv, Taken, Selecting
<1>4. ASSUME NEW d \in Client PROVE FeedInv(d)'
  <2>1. Fed(d)' = Fed(d) BY <1>1 DEF Fed, Taken, Selecting
  <2> QED BY <1>1, <2>1, FeedKept
<1> QED BY <1>2, <1>3, <1>4 DEF HubIInv

(* A client that takes the message is fed up to it; one that cannot is      *)
(* let go before it would miss it.                                          *)
LEMMA PassOnStep == ASSUME HubIInv, NEW c \in Client, PassOn(c) PROVE HubIInv'
<1>1. /\ c \in hub.todo
      /\ hub' = [hub EXCEPT !.todo = hub.todo \ {c}]
      /\ UNCHANGED <<queue, sent, writer, reader, conn, received>>
  BY DEF PassOn
<1>2. \/ /\ Len(buffer[c]) < BufferSize
         /\ buffer' = [buffer EXCEPT ![c] = Append(buffer[c], hub.msg)]
         /\ UNCHANGED <<clients, closed>>
      \/ closed' = closed \cup {c} /\ clients' = clients \ {c} /\ UNCHANGED buffer
  BY DEF PassOn
<1>3. /\ hub \in [msg : 0..MaxMessages, todo : SUBSET Client]
      /\ queue \in Seq(Message) /\ sent \in 0..MaxMessages
      /\ buffer \in [Client -> Seq(Message)]
  BY DEF HubIInv, HubTypeOK
<1>4. hub.msg = Taken /\ hub.msg \in Message /\ c \in clients BY <1>1 DEF HubIInv, HubInv, Selecting
<1>5. /\ hub' \in [msg : 0..MaxMessages, todo : SUBSET Client]
      /\ hub'.todo = hub.todo \ {c} /\ hub'.msg = hub.msg
  BY <1>1, <1>3
<1>6. Taken' = Taken /\ Taken \in Int
  <2>1. Len(queue) \in Nat BY <1>3, LenProperties
  <2> QED BY <1>1, <1>3, <2>1 DEF Taken
<1>7. HubInv'
  BY <1>1, <1>2, <1>4, <1>5, <1>6 DEF HubIInv, HubInv
<1>8. \A d \in Client : d # c => Fed(d)' = Fed(d) BY <1>5, <1>6 DEF Fed
<1>9. CASE closed' = closed \cup {c} /\ clients' = clients \ {c} /\ UNCHANGED buffer
  <2>1. HubTypeOK' BY <1>1, <1>5, <1>9 DEF HubIInv, HubTypeOK
  <2>2. ASSUME NEW d \in Client PROVE FeedInv(d)'
    BY <1>1, <1>4, <1>8, <1>9, FeedKept
  <2> QED BY <1>7, <2>1, <2>2 DEF HubIInv
<1>10. CASE /\ Len(buffer[c]) < BufferSize
            /\ buffer' = [buffer EXCEPT ![c] = Append(buffer[c], hub.msg)]
            /\ UNCHANGED <<clients, closed>>
  <2> DEFINE s == buffer[c]
             x == hub.msg
             t == Append(s, x)
  <2>1. /\ FeedInv(c) /\ s \in Seq(Message) /\ Consecutive(s) /\ Len(s) \in Nat
        /\ received[c] \in Seq(Message)
    BY <1>3, LenProperties DEF HubIInv, FeedInv, HubTypeOK
  <2>2. x \in Message /\ x = Taken BY <1>1, <1>4 DEF HubIInv, HubInv, Selecting
  <2>3. s # <<>> => s[Len(s)] = Taken - 1 BY <1>1, <1>4, <2>1 DEF FeedInv, Fed
  <2>4. /\ t \in Seq(Message) /\ t # <<>> /\ Len(t) = Len(s) + 1
        /\ t[Len(s) + 1] = x /\ t[1] = (IF s = <<>> THEN x ELSE s[1])
        /\ Consecutive(t)
    <3>1. s # <<>> => x = s[Len(s)] + 1 BY <1>6, <2>2, <2>3
    <3> HIDE DEF s, x
    <3> QED BY <2>1, <2>2, <3>1, AppendConsecutive
  <2>5. /\ buffer'[c] = t
        /\ \A d \in Client : d # c => buffer'[d] = buffer[d]
        /\ buffer' \in [Client -> Seq(Message)]
    BY <1>3, <1>10, <2>4
  <2>6. HubTypeOK'
    <3>1. \A d \in Client : Len(buffer'[d]) <= BufferSize
      <4>1. Len(t) <= BufferSize BY <1>10, <2>1, <2>4, HubAssumption
      <4> HIDE DEF t
      <4> QED BY <2>4, <2>5, <4>1 DEF HubIInv, HubTypeOK
    <3> QED BY <1>1, <1>5, <1>10, <2>5, <3>1 DEF HubIInv, HubTypeOK
  <2>7. ASSUME NEW d \in Client PROVE FeedInv(d)'
    <3>1. CASE d # c BY <1>1, <1>8, <1>10, <2>5, <3>1, FeedKept
    <3>2. CASE d = c
      <4>1. Fed(c)' = Taken BY <1>5, <1>6 DEF Fed
      <4>2. reader[c] \notin {"none", "register"} BY <1>4 DEF HubIInv, HubTypeOK
      <4>3. conn'[c] = "up" /\ received'[c] # <<>> =>
              t[1] = received'[c][Len(received'[c])] + 1
        <5>1. SUFFICES ASSUME conn[c] = "up", received[c] # <<>>
                       PROVE  t[1] = received[c][Len(received[c])] + 1
          BY <1>1
        <5>2. CASE s = <<>>
          <6>1. received[c][Len(received[c])] = Taken - 1
            BY <1>1, <1>4, <2>1, <5>1, <5>2 DEF FeedInv, Fed
          <6> QED BY <1>6, <2>2, <2>4, <5>2, <6>1
        <5>3. CASE s # <<>> BY <2>1, <2>4, <5>1, <5>3 DEF FeedInv
        <5> QED BY <5>2, <5>3
      <4>4. t[Len(t)] = Taken BY <2>2, <2>4
      <4>5. FeedInv(c) BY <2>1
      <4> HIDE DEF t, s, x
      <4> QED BY <1>1, <1>10, <2>4, <2>5, <3>2, <4>1, <4>2, <4>3, <4>4, <4>5, SMTT(60)
              DEF FeedInv, Consecutive
    <3> QED BY <3>1, <3>2
  <2> QED BY <1>7, <2>6, <2>7 DEF HubIInv
<1> QED BY <1>2, <1>9, <1>10

(* The browser gets what waited longest; once the connection is not up, it  *)
(* gets nothing any more.                                                   *)
LEMMA WriteNextStep == ASSUME HubIInv, NEW c \in Client, WriteNext(c) PROVE HubIInv'
<1> DEFINE s == buffer[c]
           x == Head(s)
           r == received[c]
<1>1. /\ s # <<>>
      /\ received' = [received EXCEPT ![c] = IF conn[c] = "up" THEN Append(r, x) ELSE r]
      /\ buffer' = [buffer EXCEPT ![c] = Tail(s)]
      /\ HubUnchanged
      /\ UNCHANGED <<queue, sent, clients, hub, closed, writer, reader, conn>>
  BY DEF WriteNext, HubUnchanged
<1>2. /\ buffer \in [Client -> Seq(Message)] /\ received \in [Client -> Seq(Message)]
      /\ s \in Seq(Message) /\ r \in Seq(Message) /\ Len(s) \in Nat /\ Len(r) \in Nat
  BY LenProperties DEF HubIInv, HubTypeOK
<1>3. FeedInv(c) BY DEF HubIInv
<1>4. /\ Tail(s) \in Seq(Message) /\ Len(Tail(s)) = Len(s) - 1
      /\ x \in Message /\ x = s[1]
      /\ Tail(s) # <<>> => /\ Tail(s)[1] = x + 1
                           /\ Tail(s)[Len(Tail(s))] = s[Len(s)]
      /\ Tail(s) = <<>> => s[Len(s)] = x
      /\ Consecutive(Tail(s))
  <2>1. Consecutive(s) BY <1>3 DEF FeedInv
  <2> HIDE DEF s
  <2> QED BY <1>1, <1>2, <2>1, TailConsecutive DEF x
<1>5. ASSUME conn[c] = "up"
      PROVE  /\ Append(r, x) \in Seq(Message) /\ Append(r, x) # <<>>
             /\ Append(r, x)[Len(Append(r, x))] = x
             /\ Consecutive(Append(r, x))
  <2>1. Consecutive(r) /\ (r # <<>> => x = r[Len(r)] + 1)
    BY <1>1, <1>3, <1>4, <1>5 DEF FeedInv
  <2> HIDE DEF r, x
  <2> QED BY <1>2, <1>4, <2>1, AppendConsecutive, SMTT(60)
<1>6. HubInv' /\ \A d \in Client : Fed(d)' = Fed(d) BY <1>1, HubKept
<1>7. /\ buffer' \in [Client -> Seq(Message)] /\ received' \in [Client -> Seq(Message)]
      /\ buffer'[c] = Tail(s)
      /\ received'[c] = IF conn[c] = "up" THEN Append(r, x) ELSE r
      /\ \A d \in Client : d # c => buffer'[d] = buffer[d] /\ received'[d] = received[d]
  <2> DEFINE t == Tail(s)
             q == IF conn[c] = "up" THEN Append(r, x) ELSE r
  <2>1. t \in Seq(Message) /\ q \in Seq(Message) BY <1>2, <1>4, <1>5
  <2>2. buffer' = [buffer EXCEPT ![c] = t] /\ received' = [received EXCEPT ![c] = q]
    BY <1>1
  <2> HIDE DEF t, q, s, r, x
  <2>3. /\ buffer' \in [Client -> Seq(Message)] /\ received' \in [Client -> Seq(Message)]
        /\ buffer'[c] = t /\ received'[c] = q
        /\ \A d \in Client : d # c => buffer'[d] = buffer[d] /\ received'[d] = received[d]
    BY <1>2, <2>1, <2>2
  <2> QED BY <2>3 DEF t, q
<1>8. HubTypeOK'
  <2>1. \A d \in Client : Len(buffer'[d]) <= BufferSize
    <3>1. Len(s) <= BufferSize BY DEF HubIInv, HubTypeOK
    <3>2. Len(buffer'[c]) <= BufferSize BY <1>2, <1>4, <1>7, <3>1, HubAssumption
    <3> QED BY <1>7, <3>2 DEF HubIInv, HubTypeOK
  <2> QED BY <1>1, <1>7, <2>1 DEF HubIInv, HubTypeOK
<1>9. ASSUME NEW d \in Client PROVE FeedInv(d)'
  <2>1. CASE d # c BY <1>1, <1>6, <1>7, <2>1, FeedKept
  <2>2. CASE d = c
    <3>1. reader'[c] \notin {"none", "register"} BY <1>1, <1>3 DEF FeedInv
    <3>2. c \in clients => s[Len(s)] = Fed(c) BY <1>1, <1>3 DEF FeedInv
    <3>3. Consecutive(received'[c]) BY <1>3, <1>5, <1>7 DEF FeedInv
    <3>4. conn[c] = "up" => received'[c][Len(received'[c])] = x BY <1>5, <1>7
    <3>5. Consecutive(buffer'[c]) BY <1>4, <1>7
    <3> HIDE DEF s, x, r
    <3>6. conn'[c] = "none" => reader'[c] = "none" BY <1>1, <1>3 DEF FeedInv
    <3>7. conn'[c] = "up" /\ received'[c] # <<>> /\ buffer'[c] # <<>> =>
            buffer'[c][1] = received'[c][Len(received'[c])] + 1
      BY <1>1, <1>4, <1>7, <3>4
    <3>8. c \in clients' /\ buffer'[c] # <<>> => buffer'[c][Len(buffer'[c])] = Fed(c)'
      BY <1>1, <1>4, <1>6, <1>7, <3>2
    <3>9. c \in clients' /\ conn'[c] = "up" /\ buffer'[c] = <<>> =>
            received'[c][Len(received'[c])] = Fed(c)'
      BY <1>1, <1>4, <1>6, <1>7, <3>2, <3>4
    <3>10. Consecutive(buffer[c])' /\ Consecutive(received[c])'
      BY <3>3, <3>5 DEF Consecutive
    <3> QED BY <2>2, <3>1, <3>6, <3>7, <3>8, <3>9, <3>10 DEF FeedInv
  <2> QED BY <2>1, <2>2
<1> QED BY <1>6, <1>8, <1>9 DEF HubIInv

LEMMA StopWriterStep == ASSUME HubIInv, NEW c \in Client, StopWriter(c) PROVE HubIInv'
<1>1. /\ writer[c] = "run" /\ writer' = [writer EXCEPT ![c] = "done"]
      /\ conn[c] # "up" \/ c \in closed
      /\ conn' = [conn EXCEPT ![c] = "closed"]
      /\ HubUnchanged
      /\ UNCHANGED <<queue, sent, clients, hub, buffer, closed, reader, received>>
  BY DEF StopWriter, HubUnchanged
<1>2. HubTypeOK' BY <1>1 DEF HubIInv, HubTypeOK
<1>3. HubInv' /\ \A d \in Client : Fed(d)' = Fed(d) BY <1>1, HubKept
<1>4. ASSUME NEW d \in Client PROVE FeedInv(d)'
  <2>1. CASE d # c BY <1>1, <1>3, <2>1, FeedKept DEF HubIInv, HubTypeOK
  <2>2. CASE d = c
    <3>1. conn'[c] = "closed" /\ FeedInv(c) BY <1>1 DEF HubIInv, HubTypeOK
    <3> QED BY <1>1, <1>3, <2>2, <3>1 DEF FeedInv, Consecutive
  <2> QED BY <2>1, <2>2
<1> QED BY <1>2, <1>3, <1>4 DEF HubIInv

LEMMA ReadFailsStep == ASSUME HubIInv, NEW c \in Client, ReadFails(c) PROVE HubIInv'
<1>1. /\ reader[c] = "run" /\ reader' = [reader EXCEPT ![c] = "leave"]
      /\ HubUnchanged
      /\ UNCHANGED <<queue, sent, clients, hub, buffer, closed, writer, conn, received>>
  BY DEF ReadFails, HubUnchanged
<1>2. HubTypeOK' BY <1>1 DEF HubIInv, HubTypeOK
<1>3. HubInv' /\ \A d \in Client : Fed(d)' = Fed(d) BY <1>1, HubKept
<1>4. ASSUME NEW d \in Client PROVE FeedInv(d)'
  <2>1. CASE d # c BY <1>1, <1>3, <2>1, FeedKept DEF HubIInv, HubTypeOK
  <2>2. CASE d = c
    <3>1. reader'[c] = "leave" /\ FeedInv(c) BY <1>1 DEF HubIInv, HubTypeOK
    <3> QED BY <1>1, <1>3, <2>2, <3>1 DEF FeedInv, Consecutive
  <2> QED BY <2>1, <2>2
<1> QED BY <1>2, <1>3, <1>4 DEF HubIInv

LEMMA StutterStep == ASSUME HubIInv, UNCHANGED hubVars PROVE HubIInv'
<1>1. /\ HubUnchanged
      /\ UNCHANGED <<queue, sent, clients, hub, buffer, closed, writer, reader, conn, received>>
  BY DEF hubVars, HubUnchanged
<1>2. HubTypeOK' BY <1>1 DEF HubIInv, HubTypeOK
<1>3. HubInv' /\ \A d \in Client : Fed(d)' = Fed(d) BY <1>1, HubKept
<1>4. \A d \in Client : FeedInv(d)' BY <1>1, <1>3, FeedKept
<1> QED BY <1>2, <1>3, <1>4 DEF HubIInv
-----------------------------------------------------------------------------
(* The three facts, and what follows from them *)

LEMMA InitInv == ASSUME HubInit PROVE HubIInv
<1>1. <<>> \in Seq(Message) /\ Len(<<>>) = 0 BY EmptySeq
<1>2. HubTypeOK BY <1>1, HubAssumption DEF HubInit, HubTypeOK, Selecting
<1>3. HubInv BY <1>1 DEF HubInit, HubInv, Selecting
<1>4. \A c \in Client : FeedInv(c) BY EmptyConsecutive DEF HubInit, FeedInv
<1> QED BY <1>2, <1>3, <1>4 DEF HubIInv

LEMMA NextInv == ASSUME HubIInv, [HubNext]_hubVars PROVE HubIInv'
  BY ConnectStep, VanishStep, WriteNextStep, StopWriterStep, ReadFailsStep, BroadcastStep,
     RegisterStep, UnregisterStep, PassOnStep, TakeBroadcastStep, PassedOnStep, StutterStep
     DEF HubNext, HubStep, HubAtRest

LEMMA InvAlways == HubSpec => []HubIInv
  BY InitInv, NextInv, PTL DEF HubSpec

(* The hub's map has a client exactly from the hand-over to the close of    *)
(* its channel, buffers and queue stay within their capacity, and only      *)
(* broadcast messages travel (hub.go:24-57).                                *)
THEOREM HubTypeCorrect == HubSpec => []HubTypeOK
  BY InvAlways, PTL DEF HubIInv

(* A browser that is connected misses no broadcast and gets none twice or   *)
(* out of order: it is let go as soon as its buffer is full (hub.go:40-49). *)
THEOREM FeedHasNoGaps == HubSpec => []GaplessFeed
<1>1. HubIInv => GaplessFeed BY DEF HubIInv, FeedInv, Consecutive, GaplessFeed
<1> QED BY <1>1, InvAlways, PTL

(* The hub sends on and closes only channels that are open (hub.go:32-49):  *)
(* while it ranges over the map, and after it let slow clients go.          *)
THEOREM NoPanic == HubSpec => []NeverOnClosed
<1>1. HubIInv => NeverOnClosed BY DEF HubIInv, HubInv, HubTypeOK, NeverOnClosed
<1> QED BY <1>1, InvAlways, PTL
=============================================================================
