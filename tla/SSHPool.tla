-------------------------------- MODULE SSHPool --------------------------------
(***************************************************************************)
(* ConnectionPool: one SSH session per OLT, shared by the scan goroutines  *)
(* (SendCommand), checked by the keep-alive goroutine, and closed when the *)
(* program stops.  p.mu guards the map of entries and is held while a new  *)
(* host is dialled; the mutex of an entry is held while its session runs   *)
(* commands and is replaced.                                               *)
(*                                                                         *)
(* A definition named for a defect (...Unlocked, ...Forgotten,             *)
(* ...AnyEntry, ...WithEntries) is a faulty variant of the definition that *)
(* follows it.                                                             *)
(***************************************************************************)
EXTENDS Naturals, FiniteSets

CONSTANTS
    Host,         \* OLTs
    Caller,       \* goroutines that run SendCommand
    KeepAlive,    \* the goroutine of keepAliveLoop
    Main,         \* the goroutine that closes the pool
    Nobody,       \* no goroutine
    MaxSessions,  \* bound: sessions opened (a dial beyond it fails)
    MaxCalls      \* bound: calls of SendCommand

Worker == Caller \cup {KeepAlive}
Goroutine == Worker \cup {Main}
Session == 1..MaxSessions
Entry == 1..MaxSessions     \* an entry is numbered after its first session
None == 0

ASSUME PoolAssumption ==
    /\ KeepAlive \notin Caller /\ Main \notin Worker /\ Nobody \notin Goroutine
    /\ MaxSessions \in Nat /\ MaxCalls \in Nat

VARIABLES
    conns,    \* p.conns: [Host -> Entry or None]
    pmu,      \* who holds p.mu (the read lock is released at once)
    driver,   \* [Entry -> Session or None]: entry.driver
    emu,      \* [Entry -> goroutine or Nobody]: who holds entry.mu
    live,     \* sessions open on a device
    dialled,  \* sessions opened so far, numbered 1..dialled
    target,   \* [Session -> Host or None]: the device a session is with
    proc,     \* [Worker -> record]: the goroutine's call
    toCheck,  \* hosts the keep-alive round has still to check
    main,     \* "run", "closing" (stopped is closed), "closed"
    calls

poolVars == <<conns, pmu, driver, emu>>
deviceVars == <<live, dialled, target>>
vars == <<poolVars, deviceVars, proc, toCheck, main, calls>>

(* pc of a caller: find (the map under RLock), lock (p.mu), dial, enter      *)
(* (entry.mu), send, close, redial, drop (p.mu, to delete the host), again, *)
(* leave (unlock entry.mu).  The keep-alive goroutine uses enter, send,     *)
(* close, drop and leave.                                                   *)
ProcRecord ==
    [pc : {"idle", "find", "lock", "dial", "enter", "send", "close", "redial", "drop",
           "again", "leave"},
     host : Host \cup {None}, entry : Entry \cup {None}]
Idle == [pc |-> "idle", host |-> None, entry |-> None]

(* Past entry.mu.Lock(). *)
Inside(g) == proc[g].pc \in {"send", "close", "redial", "drop", "again", "leave"}
Types ==
    /\ conns \in [Host -> Entry \cup {None}]
    /\ pmu \in Goroutine \cup {Nobody}
    /\ driver \in [Entry -> Session \cup {None}]
    /\ emu \in [Entry -> Worker \cup {Nobody}]
    /\ live \in SUBSET Session /\ dialled \in 0..MaxSessions
    /\ target \in [Session -> Host \cup {None}]
    /\ proc \in [Worker -> ProcRecord]
    /\ toCheck \in SUBSET Host
    /\ main \in {"run", "closing", "closed"}
    /\ calls \in 0..MaxCalls

LocksHeld ==
    /\ pmu # Nobody => pmu \in Caller
    /\ \A c \in Caller : pmu = c <=> proc[c].pc = "dial"
    /\ \A g \in Worker, e \in Entry : emu[e] = g <=> Inside(g) /\ proc[g].entry = e

(* Types; and each mutex is held by the goroutine that is between its Lock  *)
(* and its Unlock, and by no other.                                         *)
TypeOK == Types /\ LocksHeld

Init ==
    /\ conns = [h \in Host |-> None]
    /\ pmu = Nobody
    /\ driver = [e \in Entry |-> None]
    /\ emu = [e \in Entry |-> Nobody]
    /\ live = {} /\ dialled = 0
    /\ target = [s \in Session |-> None]
    /\ proc = [g \in Worker |-> Idle]
    /\ toCheck = {}
    /\ main = "run"
    /\ calls = 0

(* The goroutine's next step, with the entry it has found.                  *)
Continue(g, pc, e) == proc' = [proc EXCEPT ![g] = [pc |-> pc, host |-> proc[g].host, entry |-> e]]
Goto(g, pc) == Continue(g, pc, proc[g].entry)
ElseUnchanged == UNCHANGED <<toCheck, main, calls>>

(* A session with host h is opened, and is session dialled + 1.             *)
Dials(h) ==
    /\ dialled < MaxSessions
    /\ dialled' = dialled + 1
    /\ live' = live \cup {dialled + 1}
    /\ target' = [target EXCEPT ![dialled + 1] = h]

-----------------------------------------------------------------------------
(* getOrConnect *)

(* The OLT list may name a host for several goroutines at once.             *)
Call(c, h) ==
    /\ proc[c].pc = "idle"
    /\ calls < MaxCalls /\ calls' = calls + 1
    /\ proc' = [proc EXCEPT ![c] = [pc |-> "find", host |-> h, entry |-> None]]
    /\ UNCHANGED <<poolVars, deviceVars, toCheck, main>>

FindEntry(c) ==
    /\ proc[c].pc = "find" /\ pmu = Nobody
    /\ LET e == conns[proc[c].host] IN
         Continue(c, IF e = None THEN "lock" ELSE "enter", e)
    /\ UNCHANGED <<poolVars, deviceVars>> /\ ElseUnchanged

(* Looked up again under the write lock.                                    *)
LockPool(c) ==
    /\ proc[c].pc = "lock" /\ pmu = Nobody
    /\ LET e == conns[proc[c].host] IN
         IF e = None THEN pmu' = c /\ Goto(c, "dial")
         ELSE Continue(c, "enter", e) /\ UNCHANGED pmu
    /\ UNCHANGED <<conns, driver, emu, deviceVars>> /\ ElseUnchanged

(* The dial of a new host, under p.mu: everybody else waits.                *)
DialNewUnlockForgotten(c) ==
    /\ proc[c].pc = "dial"
    /\ \/ /\ Dials(proc[c].host)
          /\ pmu' = Nobody
          /\ conns' = [conns EXCEPT ![proc[c].host] = dialled + 1]
          /\ driver' = [driver EXCEPT ![dialled + 1] = dialled + 1]
          /\ Continue(c, "enter", dialled + 1)
       \/ /\ proc' = [proc EXCEPT ![c] = Idle]
          /\ UNCHANGED <<pmu, conns, driver, deviceVars>>
    /\ UNCHANGED emu /\ ElseUnchanged
DialNew(c) ==
    /\ proc[c].pc = "dial"
    /\ pmu' = Nobody
    /\ \/ /\ Dials(proc[c].host)
          /\ conns' = [conns EXCEPT ![proc[c].host] = dialled + 1]
          /\ driver' = [driver EXCEPT ![dialled + 1] = dialled + 1]
          /\ Continue(c, "enter", dialled + 1)
       \/ /\ proc' = [proc EXCEPT ![c] = Idle]
          /\ UNCHANGED <<conns, driver, deviceVars>>
    /\ UNCHANGED emu /\ ElseUnchanged

-----------------------------------------------------------------------------
(* SendCommand, and what the keep-alive goroutine shares with it *)

EnterUnlocked(g) ==
    /\ proc[g].pc = "enter"
    /\ emu' = [emu EXCEPT ![proc[g].entry] = g]
    /\ Goto(g, "send")
    /\ UNCHANGED <<conns, pmu, driver, deviceVars>> /\ ElseUnchanged
Enter(g) ==
    /\ proc[g].pc = "enter" /\ emu[proc[g].entry] = Nobody
    /\ emu' = [emu EXCEPT ![proc[g].entry] = g]
    /\ Goto(g, "send")
    /\ UNCHANGED <<conns, pmu, driver, deviceVars>> /\ ElseUnchanged

(* The command on the entry's session succeeds or fails; on a closed        *)
(* session it fails.                                                        *)
Send(g) ==
    /\ proc[g].pc = "send"
    /\ \/ driver[proc[g].entry] \in live /\ Goto(g, "leave")
       \/ Goto(g, "close")
    /\ UNCHANGED <<poolVars, deviceVars>> /\ ElseUnchanged

CloseBrokenForgotten(g) ==
    /\ proc[g].pc = "close"
    /\ Goto(g, IF g = KeepAlive THEN "drop" ELSE "redial")
    /\ UNCHANGED <<poolVars, deviceVars>> /\ ElseUnchanged
CloseBroken(g) ==
    /\ proc[g].pc = "close"
    /\ live' = live \ {driver[proc[g].entry]}
    /\ Goto(g, IF g = KeepAlive THEN "drop" ELSE "redial")
    /\ UNCHANGED <<poolVars, dialled, target>> /\ ElseUnchanged

(* The entry's session is replaced, whether or not the entry is still in    *)
(* the map.                                                                 *)
Redial(c) ==
    /\ proc[c].pc = "redial"
    /\ \/ /\ Dials(proc[c].host)
          /\ driver' = [driver EXCEPT ![proc[c].entry] = dialled + 1]
          /\ Goto(c, "again")
       \/ Goto(c, "drop") /\ UNCHANGED <<driver, deviceVars>>
    /\ UNCHANGED <<conns, pmu, emu>> /\ ElseUnchanged

(* Whatever entry the map holds for the host now is removed.                *)
Drop(g) ==
    /\ proc[g].pc = "drop" /\ pmu = Nobody
    /\ conns' = [conns EXCEPT ![proc[g].host] = None]
    /\ Goto(g, "leave")
    /\ UNCHANGED <<pmu, driver, emu, deviceVars>> /\ ElseUnchanged

SendAgain(c) ==
    /\ proc[c].pc = "again"
    /\ Goto(c, "leave")
    /\ UNCHANGED <<poolVars, deviceVars>> /\ ElseUnchanged

Leave(g) ==
    /\ proc[g].pc = "leave"
    /\ emu' = [emu EXCEPT ![proc[g].entry] = Nobody]
    /\ proc' = [proc EXCEPT ![g] = Idle]
    /\ UNCHANGED <<conns, pmu, driver, deviceVars>> /\ ElseUnchanged

-----------------------------------------------------------------------------
(* keepAliveLoop *)

(* The select may take a tick that is due although stopped is closed. *)
StartRound ==
    /\ proc[KeepAlive].pc = "idle" /\ toCheck = {} /\ pmu = Nobody
    /\ toCheck' = {h \in Host : conns[h] # None}
    /\ UNCHANGED <<poolVars, deviceVars, proc, main, calls>>

CheckHostAnyEntry(h) ==
    /\ proc[KeepAlive].pc = "idle" /\ h \in toCheck /\ pmu = Nobody
    /\ toCheck' = toCheck \ {h}
    /\ \E k \in Host :
         proc' = IF conns[k] = None THEN proc
                 ELSE [proc EXCEPT ![KeepAlive] =
                         [pc |-> "enter", host |-> h, entry |-> conns[k]]]
    /\ UNCHANGED <<poolVars, deviceVars, main, calls>>
CheckHost(h) ==
    /\ proc[KeepAlive].pc = "idle" /\ h \in toCheck /\ pmu = Nobody
    /\ toCheck' = toCheck \ {h}
    /\ proc' = IF conns[h] = None THEN proc
               ELSE [proc EXCEPT ![KeepAlive] = [pc |-> "enter", host |-> h, entry |-> conns[h]]]
    /\ UNCHANGED <<poolVars, deviceVars, main, calls>>

-----------------------------------------------------------------------------
(* Close, from main: the drivers in the map are closed without the mutex of *)
(* their entry.                                                             *)

StopKeepAlive ==
    /\ main = "run"
    /\ main' = "closing"
    /\ UNCHANGED <<poolVars, deviceVars, proc, toCheck, calls>>

InMap == {driver[conns[h]] : h \in {x \in Host : conns[x] # None}}

CloseAllWithEntries ==
    /\ main = "closing" /\ pmu \in {Nobody, Main}
    /\ IF \A h \in Host : conns[h] # None => emu[conns[h]] = Nobody
       THEN /\ pmu' = Nobody /\ main' = "closed"
            /\ live' = live \ InMap /\ conns' = [h \in Host |-> None]
       ELSE pmu' = Main /\ UNCHANGED <<main, live, conns>>
    /\ UNCHANGED <<driver, emu, dialled, target, proc, toCheck, calls>>
CloseAll ==
    /\ main = "closing" /\ pmu = Nobody
    /\ live' = live \ InMap
    /\ conns' = [h \in Host |-> None]
    /\ main' = "closed"
    /\ UNCHANGED <<pmu, driver, emu, dialled, target, proc, toCheck, calls>>

(* Nobody is in a call, and no more calls come.                             *)
AtRest == (\A g \in Worker : proc[g].pc = "idle") /\ UNCHANGED vars

CallerStep(c) ==
    FindEntry(c) \/ LockPool(c) \/ DialNew(c) \/ Enter(c) \/ Send(c) \/ CloseBroken(c)
    \/ Redial(c) \/ Drop(c) \/ SendAgain(c) \/ Leave(c)

KeepAliveStep ==
    \/ StartRound
    \/ \E h \in Host : CheckHost(h)
    \/ Enter(KeepAlive) \/ Send(KeepAlive) \/ CloseBroken(KeepAlive)
    \/ Drop(KeepAlive) \/ Leave(KeepAlive)

Next ==
    \/ \E c \in Caller : CallerStep(c) \/ \E h \in Host : Call(c, h)
    \/ KeepAliveStep
    \/ StopKeepAlive
    \/ CloseAll
    \/ AtRest

Spec == Init /\ [][Next]_vars

(* Goroutines run, dials and commands return (they have timeouts), and a    *)
(* goroutine that waits for a mutex gets it (sync.Mutex does not starve):   *)
(* its next step is enabled whenever the mutex is free.                     *)
Fairness ==
    /\ \A c \in Caller : SF_vars(CallerStep(c))
    /\ SF_vars(KeepAliveStep)
    /\ SF_vars(CloseAll)

FairSpec == Spec /\ Fairness

-----------------------------------------------------------------------------
(* Properties *)

(* A terminal session has one user at a time: two goroutines that send on   *)
(* sessions at the same moment never share one, and no session is closed by *)
(* a goroutine for another's command, apart from the pool's Close.          *)
OneUserPerSession ==
    \A g, k \in Worker :
        Inside(g) /\ Inside(k) /\ driver[proc[g].entry] = driver[proc[k].entry]
            /\ driver[proc[g].entry] # None => g = k

(* A goroutine only ever talks to the device it was asked for, also after   *)
(* its session was replaced or its entry removed by others.                 *)
RightDevice ==
    \A g \in Worker :
        Inside(g) => target[driver[proc[g].entry]] = proc[g].host

(* A broken session is closed before it is replaced: every open session is  *)
(* the driver of an entry.                                                  *)
NoSessionForgotten == \A s \in live : \E e \in Entry : driver[e] = s

(* Every SendCommand returns: the two kinds of mutex are never waited for   *)
(* in a circle, although dials run under p.mu and entries are dropped under *)
(* their own mutex.                                                         *)
CallsReturn == \A c \in Caller : (proc[c].pc # "idle") ~> (proc[c].pc = "idle")
=============================================================================
