---------------------------- MODULE MDnsMonitor ----------------------------
(***************************************************************************)
(* netd's multicast DNS front end (netd/MDnsSdListener.cpp).  The command  *)
(* thread puts one element per request on a list, asks mdnsd for a         *)
(* connection and marks the element ready; the monitor thread polls the    *)
(* connections of the ready elements, and a byte on a socket pair makes it *)
(* walk the list again, to poll new elements and to delete stopped ones.   *)
(* The list's mutex is held for each walk and for each change, not for a   *)
(* whole command.  The five kinds of request differ only in the callback   *)
(* that formats the answer, so there is one.                               *)
(***************************************************************************)
EXTENDS Integers, Sequences, FiniteSets, SequencesExt

CONSTANTS
    Ids,         \* request ids
    MaxReqs,     \* requests made (elements allocated)
    MaxStops,    \* stop commands
    MaxFails,    \* requests mdnsd refuses
    PollSize,    \* the first size of mPollFds (10 in the code)
    Spare,       \* what a larger one has beyond mLiveCount (5 in the code)
    FirstLive    \* values the constructor may leave in mLiveCount, which it does not set

VARIABLES
    list,        \* mHead and on: elements, newest first
    elem,        \* an element's mId, mReady and the state of its mRef
    live,        \* mLiveCount
    bytes,       \* RESCAN bytes in the socket pair
    cmd,         \* the command thread: what it does next, for which id, with which element
    mon,         \* the monitor thread: "poll", "process", "rescan" or "spin"
    polls,       \* the elements of mPollRefs, from slot 1 on
    size,        \* mPollSize
    todo, ctl,   \* slots and control socket found readable by the last poll
    running,     \* mdnsd runs
    deleted,     \* elements deleted
    misuse,      \* what was used after it was given back
    reqs, stops, fails,
    doubled      \* a request was stopped twice

command == <<cmd, reqs, stops, fails, doubled>>
monitor == <<mon, polls, size, todo, ctl>>
vars == <<list, elem, live, bytes, command, monitor, running, deleted, misuse>>

Elems == 1..MaxReqs
Idle == [pc |-> "idle", id |-> 0, e |-> 0]

Init ==
    /\ list = <<>>
    /\ elem = [e \in Elems |-> [id |-> 0, ready |-> 0, ref |-> "none"]]
    /\ live \in FirstLive
    /\ bytes = 0 /\ cmd = Idle /\ mon = "poll" /\ polls = <<>> /\ size = PollSize
    /\ todo = {} /\ ctl = FALSE /\ running = FALSE
    /\ deleted = {} /\ misuse = {}
    /\ reqs = 0 /\ stops = 0 /\ fails = 0 /\ doubled = FALSE

\* The monitor keeps the mutex only when its walk does not end.
Unlocked == mon # "spin"

Find(id) ==
    IF \E j \in DOMAIN list : elem[list[j]].id = id
    THEN list[SelectInSeq(list, LAMBDA e : elem[e].id = id)] ELSE 0
Gone(e) == SelectSeq(list, LAMBDA x : x # e)
--------------------------------------------------------------------------
\* The commands, up to the first call that may block.
\* A new element for an id that has one already.
RequestAgain ==
    /\ cmd.pc = "idle" /\ Unlocked /\ reqs < MaxReqs
    /\ \E id \in Ids :
        /\ elem' = [elem EXCEPT ![reqs + 1].id = id]
        /\ list' = <<reqs + 1>> \o list
        /\ cmd' = [pc |-> "connect", id |-> id, e |-> reqs + 1]
    /\ reqs' = reqs + 1
    /\ UNCHANGED <<live, bytes, stops, fails, doubled, monitor, running, deleted, misuse>>

\* discover, serviceRegister, resolveService, getAddrInfo, setHostname:
\* allocateServiceRef refuses an id that is on the list.
Request ==
    /\ cmd.pc = "idle" /\ Unlocked /\ reqs < MaxReqs
    /\ \E id \in Ids :
        /\ Find(id) = 0
        /\ elem' = [elem EXCEPT ![reqs + 1].id = id]
        /\ list' = <<reqs + 1>> \o list
        /\ cmd' = [pc |-> "connect", id |-> id, e |-> reqs + 1]
    /\ reqs' = reqs + 1
    /\ UNCHANGED <<live, bytes, stops, fails, doubled, monitor, running, deleted, misuse>>

\* DNSServiceBrowse and the like.
Connect ==
    /\ cmd.pc = "connect"
    /\ \/ /\ running
          /\ elem' = [elem EXCEPT ![cmd.e].ref = "open"]
          /\ cmd' = [cmd EXCEPT !.pc = "start"]
          /\ UNCHANGED fails
       \/ /\ fails < MaxFails
          /\ cmd' = [cmd EXCEPT !.pc = "free"]
          /\ fails' = fails + 1
          /\ UNCHANGED elem
    /\ UNCHANGED <<list, live, bytes, reqs, stops, doubled, monitor, running, deleted, misuse>>

\* startMonitoring, up to the end of its critical section ...
StartMonitoring ==
    /\ cmd.pc = "start" /\ Unlocked
    /\ elem' = [elem EXCEPT ![Find(cmd.id)].ready = 1]
    /\ live' = live + 1
    /\ cmd' = [cmd EXCEPT !.pc = "wake"]
    /\ UNCHANGED <<list, bytes, reqs, stops, fails, doubled, monitor, running, deleted, misuse>>

\* ... and the byte for the monitor.
Wake ==
    /\ cmd.pc = "wake"
    /\ bytes' = bytes + 1
    /\ cmd' = Idle
    /\ UNCHANGED <<list, elem, live, reqs, stops, fails, doubled, monitor, running, deleted, misuse>>

\* stop: look the request up,
Stop ==
    /\ cmd.pc = "idle" /\ Unlocked /\ stops < MaxStops
    /\ \E id \in Ids :
        /\ Find(id) # 0
        /\ cmd' = [pc |-> "dealloc", id |-> id, e |-> Find(id)]
        /\ doubled' = (doubled \/ elem[Find(id)].ready = -1)
    /\ stops' = stops + 1
    /\ UNCHANGED <<list, elem, live, bytes, reqs, fails, monitor, running, deleted, misuse>>

\* give its connection back, by the pointer just obtained,
Dealloc ==
    /\ cmd.pc = "dealloc"
    /\ elem' = [elem EXCEPT ![cmd.e].ref = "closed"]
    /\ misuse' = misuse \cup (IF cmd.e \in deleted THEN {"element"} ELSE {})
                        \cup (IF elem[cmd.e].ref = "closed" THEN {"ref"} ELSE {})
    /\ cmd' = [cmd EXCEPT !.pc = "free"]
    /\ UNCHANGED <<list, live, bytes, reqs, stops, fails, doubled, monitor, running, deleted>>

\* The element is deleted at once.
FreeAtOnce ==
    /\ cmd.pc = "free" /\ Unlocked
    /\ LET e == Find(cmd.id)
       IN  IF e = 0 THEN UNCHANGED <<list, elem, live, bytes, deleted>>
           ELSE /\ live' = live - 1
                /\ list' = Gone(e)
                /\ deleted' = deleted \cup {e}
                /\ bytes' = bytes + 1
                /\ UNCHANGED elem
    /\ cmd' = Idle
    /\ UNCHANGED <<reqs, stops, fails, doubled, monitor, running, misuse>>

\* No byte for the monitor.
FreeQuiet ==
    /\ cmd.pc = "free" /\ Unlocked
    /\ LET e == Find(cmd.id)
       IN  IF e = 0 THEN UNCHANGED <<list, elem, live, deleted>>
           ELSE /\ live' = live - 1
                /\ IF elem[e].ready = 1
                   THEN /\ elem' = [elem EXCEPT ![e].ready = -1]
                        /\ UNCHANGED <<list, deleted>>
                   ELSE /\ list' = Gone(e)
                        /\ deleted' = deleted \cup {e}
                        /\ UNCHANGED elem
    /\ cmd' = Idle
    /\ UNCHANGED <<bytes, reqs, stops, fails, doubled, monitor, running, misuse>>

\* and freeServiceRef: an element the monitor may be polling is left to it.
Free ==
    /\ cmd.pc = "free" /\ Unlocked
    /\ LET e == Find(cmd.id)
       IN  IF e = 0 THEN UNCHANGED <<list, elem, live, bytes, deleted>>
           ELSE /\ live' = live - 1
                /\ IF elem[e].ready = 1
                   THEN /\ elem' = [elem EXCEPT ![e].ready = -1]
                        /\ bytes' = bytes + 1
                        /\ UNCHANGED <<list, deleted>>
                   ELSE /\ list' = Gone(e)
                        /\ deleted' = deleted \cup {e}
                        /\ UNCHANGED <<elem, bytes>>
    /\ cmd' = Idle
    /\ UNCHANGED <<reqs, stops, fails, doubled, monitor, running, misuse>>

StartService ==
    /\ cmd.pc = "idle" /\ Unlocked
    /\ ~running /\ running' = TRUE
    /\ UNCHANGED <<list, elem, live, bytes, command, monitor, deleted, misuse>>

\* The service stopped whoever uses it.
StopServiceAnyway ==
    /\ cmd.pc = "idle" /\ Unlocked
    /\ running /\ running' = FALSE
    /\ UNCHANGED <<list, elem, live, bytes, command, monitor, deleted, misuse>>

\* stopService, only when there is no element.
StopService ==
    /\ cmd.pc = "idle" /\ Unlocked /\ list = <<>>
    /\ running /\ running' = FALSE
    /\ UNCHANGED <<list, elem, live, bytes, command, monitor, deleted, misuse>>
--------------------------------------------------------------------------
\* poll returns: some connections have an answer, or a byte waits.
Poll ==
    /\ mon = "poll"
    /\ todo' \in SUBSET (DOMAIN polls)
    /\ ctl' = (bytes > 0)
    /\ ctl' \/ todo' # {}
    /\ mon' = "process"
    /\ UNCHANGED <<list, elem, live, bytes, command, polls, size, running, deleted, misuse>>

\* DNSServiceProcessResult for the next readable slot, through mPollRefs.
Process ==
    /\ mon = "process" /\ todo # {}
    /\ LET i == CHOOSE i \in todo : \A j \in todo : i <= j
           e == polls[i]
       IN  /\ misuse' = misuse \cup (IF e \in deleted THEN {"element"} ELSE {})
                               \cup (IF elem[e].ref = "closed" THEN {"ref"} ELSE {})
           /\ todo' = todo \ {i}
    /\ UNCHANGED <<list, elem, live, bytes, command, mon, polls, size, ctl, running, deleted>>

\* The control socket is looked at only when no connection was readable.
ControlLater ==
    /\ mon = "process" /\ todo = {}
    /\ bytes' = bytes
    /\ mon' = "poll"
    /\ ctl' = FALSE
    /\ UNCHANGED <<list, elem, live, command, polls, size, todo, running, deleted, misuse>>

\* Then the control socket, one byte a turn.
Control ==
    /\ mon = "process" /\ todo = {}
    /\ bytes' = IF ctl THEN bytes - 1 ELSE bytes
    /\ mon' = IF ctl THEN "rescan" ELSE "poll"
    /\ ctl' = FALSE
    /\ UNCHANGED <<list, elem, live, command, polls, size, todo, running, deleted, misuse>>

\* The arrays grow only once they are overrun.
RescanTight ==
    /\ mon = "rescan"
    /\ size' = IF size < live THEN live + Spare ELSE size
    /\ LET stuck == \E e \in Range(list) : elem[e].ready = 0
           dead == {e \in Range(list) : elem[e].ready = -1}
       IN  /\ ~stuck
           /\ list' = SelectSeq(list, LAMBDA e : e \notin dead)
           /\ deleted' = deleted \cup dead
           /\ polls' = SelectSeq(list, LAMBDA e : e \notin dead)
    /\ mon' = "poll"
    /\ UNCHANGED <<elem, live, bytes, command, todo, ctl, running, misuse>>

\* rescan: the walk deletes what is stopped, polls what is ready, and does not
\* get past an element that is neither.  The arrays grow before the walk.
Rescan ==
    /\ mon = "rescan"
    /\ size' = IF size <= live THEN live + Spare ELSE size
    /\ LET stuck == \E e \in Range(list) : elem[e].ready = 0
           reached == IF stuck
                      THEN SubSeq(list, 1, SelectInSeq(list, LAMBDA e : elem[e].ready = 0) - 1)
                      ELSE list
           dead == {e \in Range(reached) : elem[e].ready = -1}
       IN  /\ list' = SelectSeq(list, LAMBDA e : e \notin dead)
           /\ deleted' = deleted \cup dead
           /\ polls' = SelectSeq(reached, LAMBDA e : e \notin dead)
           /\ misuse' = misuse \cup (IF \E e \in Range(reached) :
                                          elem[e].ready = 1 /\ elem[e].ref = "closed"
                                     THEN {"ref"} ELSE {})
           /\ mon' = IF stuck THEN "spin" ELSE "poll"
    /\ UNCHANGED <<elem, live, bytes, command, todo, ctl, running>>

Next ==
    \/ Request \/ Connect \/ StartMonitoring \/ Wake
    \/ Stop \/ Dealloc \/ Free \/ StartService \/ StopService
    \/ Poll \/ Process \/ Control \/ Rescan

Spec == Init /\ [][Next]_vars

\* Both threads run on; poll returns when a byte waits.
Fairness ==
    /\ WF_vars(Connect \/ StartMonitoring \/ Wake \/ Dealloc \/ Free)
    /\ WF_vars(Poll \/ Process \/ Control \/ Rescan)

FairSpec == Spec /\ Fairness
--------------------------------------------------------------------------
\* The elements on the list belong to different requests, so that startMonitoring
\* and freeServiceRef, which go by the id, reach the element that was meant.
OneElementPerId ==
    \A i, j \in DOMAIN list : elem[list[i]].id = elem[list[j]].id => i = j

\* The monitor's references lead to elements that still exist, at every moment
\* between two walks, unless a client stops one request twice (freeServiceRef
\* leaves a ready element to the monitor).
PolledElementsExist ==
    ~doubled => \A e \in Range(polls) : e \in Range(list) /\ e \notin deleted

\* The walk never writes past the arrays it polls with, as long as no request was
\* refused or stopped twice; the slot of the control socket counts (rescan's test
\* of mPollSize against mLiveCount).
PollArraysHold == (fails = 0 /\ ~doubled) => Len(polls) + 1 <= size

\* When neither thread is at work and no byte waits, the monitor polls exactly the
\* requests that were started and not stopped, and nothing is left to delete: no
\* interleaving of a change and a walk loses the walk that must follow.
PollIsFresh ==
    (cmd.pc = "idle" /\ bytes = 0 /\ mon = "poll") =>
        /\ polls = list
        /\ \A e \in Range(list) : elem[e].ready = 1

\* mdnsd is not stopped under an open connection (stopService's test of mHead).
StoppedWhenUnused ==
    ~running => \A e \in Elems \ deleted : elem[e].ref # "open"

\* A byte written is read, unless a walk has met an element that is not ready yet.
ByteWaits == bytes > 0
ByteRead == bytes = 0 \/ mon = "spin"
RescanComes == ByteWaits ~> ByteRead

\* freeServiceRef leaves a ready element for the monitor, which then deletes it
\* ("tell poll thread to delete", MDnsSdListener.cpp:719).
StoppedIsDeleted ==
    \A e \in Elems : elem[e].ready = -1 ~> e \in deleted

\* The list, the arrays of the monitor and the daemon agree although two threads
\* change them: one element per request, no freed element polled, no array
\* overrun, mdnsd running while a connection to it is open, and, when nothing is
\* going on, exactly the requests polled that were started and not stopped.
MonitorSafe ==
    /\ OneElementPerId /\ PolledElementsExist /\ PollArraysHold /\ StoppedWhenUnused
    /\ PollIsFresh
==========================================================================
