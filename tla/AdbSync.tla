------------------------------ MODULE AdbSync ------------------------------
(***************************************************************************)
(* The file transfer of the debug bridge: the client of "adb sync", "push" *)
(* and "pull" of a directory (src/core/adb/file_sync_client.c) and the     *)
(* service on the device (file_sync_service.c), which talk over a stream   *)
(* that holds a bounded number of messages in each direction and may break. *)
(*                                                                         *)
(* A sync lists the local files, asks for the state of all their remote    *)
(* copies before it reads the first answer, skips the ones with the same   *)
(* size and time, and sends the others; the service sets a file's time     *)
(* when it has all of it.  A run of the client starts when the service of  *)
(* the run before has ended.  A block is the number of the version that it *)
(* belongs to, which is also the version's time.                           *)
(***************************************************************************)
EXTENDS Naturals, Sequences, SequencesExt

CONSTANTS
    Files,
    Size,           \* the number of blocks of each version, 1 .. n
    Stuck,          \* files that the device can write but not unlink
    Room,           \* the messages that the stream holds in one direction
    MaxRuns,        \* bound: runs of the client
    MaxFaults       \* bound: broken streams, power failures, failing calls

VARIABLES
    local,      \* the version of each local file
    remote,     \* the copies on the device
    pulled,     \* the local copies that "pull" made
    up, down,   \* the stream: the unread messages of each direction
    open,       \* the client has its end of the stream
    cl,         \* the client
    sv,         \* the service
    runs, faults

clvars == <<local, pulled, cl, runs>>
vars == <<local, remote, pulled, up, down, open, cl, sv, runs, faults>>

Now == 0                        \* the time of a write, no version's time
None == [data |-> <<>>, time |-> Now, reg |-> FALSE]
Copy(data, time) == [data |-> data, time |-> time, reg |-> TRUE]
Content(v) == [i \in 1 .. Size[v] |-> v]

Idle == [pc |-> "idle"]
Off == [pc |-> "off"]
Command == [pc |-> "command"]

\* Before the first run the device has some other file, or none.
Init ==
    /\ local = [f \in Files |-> 1]
    /\ remote \in [Files -> {None, Copy(<<0, 0>>, Now)}]
    /\ pulled = [f \in Files |-> None]
    /\ up = <<>> /\ down = <<>> /\ open = FALSE
    /\ cl = Idle /\ sv = Off
    /\ runs = 0 /\ faults = 0

Fault == faults < MaxFaults /\ faults' = faults + 1

----------------------------------------------------------------------------
(* The user, and the cable and the battery *)

\* The user changes a file, at any time.
Edit(f) ==
    /\ local[f] + 1 \in DOMAIN Size
    /\ local' = [local EXCEPT ![f] = @ + 1]
    /\ UNCHANGED <<remote, pulled, up, down, open, cl, sv, runs, faults>>

\* The stream breaks, or the user stops the client: the service may still get
\* some of what the client had sent.
Break ==
    /\ open /\ Fault
    /\ cl' = Idle /\ open' = FALSE
    /\ \E n \in 0 .. Len(up) : up' = SubSeq(up, 1, n)
    /\ down' = <<>>
    /\ UNCHANGED <<local, remote, pulled, sv, runs>>

\* The device loses its power: what has been written stays.
PowerFails ==
    /\ sv # Off /\ Fault
    /\ cl' = Idle /\ sv' = Off /\ open' = FALSE
    /\ up' = <<>> /\ down' = <<>>
    /\ UNCHANGED <<local, remote, pulled, runs>>

----------------------------------------------------------------------------
(* The client *)

Send(m) == Len(up) < Room /\ up' = Append(up, m)
Read == down # <<>> /\ down' = Tail(down)

\* sync_quit, and the end of the process.
SyncQuit == Send([id |-> "QUIT"]) /\ cl' = Idle /\ open' = FALSE /\ down' = <<>>
\* The end of the process on an error.
Exit == cl' = Idle /\ open' = FALSE /\ down' = <<>> /\ UNCHANGED up

Connect(state) ==
    /\ cl = Idle /\ sv = Off /\ runs < MaxRuns
    /\ runs' = runs + 1
    /\ cl' = state
    /\ open' = TRUE /\ sv' = Command
    /\ up' = <<>> /\ down' = <<>>
    /\ UNCHANGED <<local, remote, pulled, faults>>

\* copy_local_dir_remote with the list of this moment's times and sizes: "push"
\* does not compare times, "sync -l" sends nothing.
DoSyncSync ==
    \E order \in SetToSeqs(Files), kind \in {"sync", "list", "push"} :
       Connect([pc |-> IF kind = "push" THEN "next" ELSE "ask", listonly |-> kind = "list",
                list |-> order, i |-> 1, k |-> 1, flag |-> {},
                time |-> local, size |-> [f \in Files |-> Size[local[f]]]])

Current == cl.list[cl.i]
Listed == cl.i <= Len(cl.list)

\* sync_start_readtime for every file,
Ask ==
    /\ cl.pc = "ask"
    /\ IF Listed
       THEN Send([id |-> "STAT", f |-> Current]) /\ cl' = [cl EXCEPT !.i = @ + 1]
       ELSE cl' = [cl EXCEPT !.pc = "answers", !.i = 1] /\ UNCHANGED up
    /\ UNCHANGED <<down, open, faults>>

\* Mutation: the times are not compared.
SameSize(f, st) == st.reg /\ st.size = cl.size[f]

Same(f, st) == st.reg /\ st.size = cl.size[f] /\ st.time = cl.time[f]

\* then sync_finish_readtime for every file.
Answers ==
    /\ cl.pc = "answers"
    /\ IF ~Listed
       THEN cl' = [cl EXCEPT !.pc = "next", !.i = 1] /\ UNCHANGED <<down, open>>
       ELSE /\ Read
            /\ cl' = [cl EXCEPT !.i = @ + 1,
                                !.flag = @ \cup {f \in {Current} : Same(f, Head(down))}]
            /\ UNCHANGED open
    /\ UNCHANGED <<up, faults>>

\* The head of the loop that sends the files without a flag.
NextFile ==
    /\ cl.pc = "next"
    /\ IF ~Listed THEN SyncQuit
       ELSE /\ IF Current \in cl.flag \/ cl.listonly
               THEN cl' = [cl EXCEPT !.i = @ + 1] /\ UNCHANGED up
               ELSE /\ Send([id |-> "SEND", f |-> Current])
                    /\ cl' = [cl EXCEPT !.pc = "data", !.k = 1]
            /\ UNCHANGED <<down, open>>
    /\ UNCHANGED faults

\* write_data_file sends the file as it is now; a failing open or read ends the
\* data as the end of the file does.
WriteDataFile ==
    /\ cl.pc = "data"
    /\ \/ /\ cl.k <= Size[local[Current]]
          /\ Send([id |-> "DATA", block |-> local[Current]])
          /\ cl' = [cl EXCEPT !.k = @ + 1]
          /\ UNCHANGED faults
       \/ /\ IF cl.k <= Size[local[Current]] THEN Fault ELSE UNCHANGED faults
          /\ cl' = [cl EXCEPT !.pc = "done"]
          /\ UNCHANGED up
    /\ UNCHANGED <<down, open>>

SendDone ==
    /\ cl.pc = "done"
    /\ Send([id |-> "DONE", time |-> cl.time[Current]])
    /\ cl' = [cl EXCEPT !.pc = "status"]
    /\ UNCHANGED <<down, open, faults>>

\* The answer to a SEND.
Status ==
    /\ cl.pc = "status" /\ down # <<>>
    /\ IF Head(down).id = "OKAY"
       THEN Read /\ cl' = [cl EXCEPT !.pc = "next", !.i = @ + 1] /\ UNCHANGED <<up, open>>
       ELSE Exit
    /\ UNCHANGED faults

\* copy_remote_dir_local: remote_build_list asks for the directory,
DoSyncPull == Connect([pc |-> "ls", list |-> <<>>, i |-> 0])

\* and then reads its entries: cl.i is 0 until the request has been sent.
SyncLs ==
    /\ cl.pc = "ls"
    /\ IF cl.i = 0
       THEN Send([id |-> "LIST"]) /\ cl' = [cl EXCEPT !.i = 1] /\ UNCHANGED down
       ELSE /\ Read
            /\ cl' = IF Head(down).id = "DENT" THEN [cl EXCEPT !.list = <<Head(down).f>> \o @]
                     ELSE [cl EXCEPT !.pc = "get"]
            /\ UNCHANGED up
    /\ UNCHANGED <<open, faults>>

Get ==
    /\ cl.pc = "get"
    /\ IF ~Listed THEN SyncQuit
       ELSE /\ Send([id |-> "RECV", f |-> Current])
            /\ cl' = [cl EXCEPT !.pc = "first"]
            /\ UNCHANGED <<down, open>>
    /\ UNCHANGED faults

\* Mutation: what came before the error is kept.
RemoteErrorKeeps == UNCHANGED pulled

\* The local file is removed; sync_recv says that all is well.
RemoteError == pulled' = [pulled EXCEPT ![Current] = None]

\* sync_recv: the first message decides whether a local file is made.
SyncRecv ==
    /\ cl.pc \in {"first", "rest"} /\ down # <<>>
    /\ LET m == Head(down)
           old == IF cl.pc = "first" THEN <<>> ELSE pulled[Current].data
       IN  \/ /\ m.id = "DATA" /\ Read
              /\ pulled' = [pulled EXCEPT ![Current] = Copy(Append(old, m.block), Now)]
              /\ cl' = [cl EXCEPT !.pc = "rest"]
              /\ UNCHANGED <<up, open, faults>>
           \/ /\ m.id = "DONE" /\ Read
              /\ pulled' = [pulled EXCEPT ![Current] = Copy(old, Now)]
              /\ cl' = [cl EXCEPT !.pc = "get", !.i = @ + 1]
              /\ UNCHANGED <<up, open, faults>>
           \/ /\ m.id = "FAIL" /\ Read
              /\ RemoteError
              /\ cl' = [cl EXCEPT !.pc = "get", !.i = @ + 1]
              /\ UNCHANGED <<up, open, faults>>
           \/ /\ m.id = "DATA" /\ Fault         \* the local file cannot be written
              /\ pulled' = [pulled EXCEPT ![Current] = Copy(old, Now)]
              /\ Exit

Client ==
    /\ \/ Ask \/ Answers \/ NextFile \/ WriteDataFile \/ SendDone \/ Status \/ SyncLs \/ Get
       \/ SyncRecv
    /\ cl.pc \notin {"first", "rest"} => UNCHANGED pulled
    /\ UNCHANGED <<local, remote, sv, runs>>

----------------------------------------------------------------------------
(* The service *)

Asked(id) == up # <<>> /\ Head(up).id = id
Take == up' = Tail(up)

\* writex to the client, and the state after it; without a client the answer is
\* lost, and the service ends if it notices.
Answer(m, state) ==
    IF open THEN Len(down) < Room /\ down' = Append(down, m) /\ sv' = state
    ELSE sv' \in {state, Off} /\ UNCHANGED down

DoStat ==
    /\ sv = Command /\ Asked("STAT") /\ Take
    /\ LET r == remote[Head(up).f]
       IN  Answer([id |-> "STAT", reg |-> r.reg, size |-> Len(r.data), time |-> r.time], Command)
    /\ UNCHANGED <<remote, faults>>

DoList ==
    /\ sv = Command /\ Asked("LIST") /\ Take
    /\ \E order \in SetToSeqs({f \in Files : remote[f].reg}) :
          sv' = [pc |-> "list", todo |-> order]
    /\ UNCHANGED <<down, remote, faults>>

ListEntry ==
    /\ sv.pc = "list"
    /\ IF sv.todo = <<>> THEN Answer([id |-> "DONE"], Command)
       ELSE Answer([id |-> "DENT", f |-> Head(sv.todo)], [sv EXCEPT !.todo = Tail(@)])
    /\ UNCHANGED <<up, remote, faults>>

Unlink(f) == IF f \in Stuck THEN remote[f] ELSE None

\* do_send unlinks the old file; handle_send_file makes a new one, or opens the
\* one that is still there, or says that it cannot and reads on.
DoSend ==
    /\ sv = Command /\ Asked("SEND") /\ Take
    /\ LET f == Head(up).f
           left == Unlink(f)
           file == [pc |-> "file", f |-> f, fd |-> TRUE, n |-> 0]
       IN  \/ /\ remote' = [remote EXCEPT ![f] = IF left.reg THEN left ELSE Copy(<<>>, Now)]
              /\ sv' = file
              /\ UNCHANGED <<down, faults>>
           \/ /\ Fault
              /\ remote' = [remote EXCEPT ![f] = left]
              /\ Answer([id |-> "FAIL"], [file EXCEPT !.fd = FALSE])

\* The data with block written at offset n.
Written(data, n, block) ==
    IF n < Len(data) THEN [data EXCEPT ![n + 1] = block] ELSE Append(data, block)

WriteData(time) ==
    /\ remote' = [remote EXCEPT ![sv.f] = Copy(Written(@.data, sv.n, Head(up).block), time)]
    /\ sv' = [sv EXCEPT !.n = @ + 1]

\* Mutation: a write that fails is not reported.
HandleDataQuiet ==
    /\ sv.pc = "file" /\ Asked("DATA") /\ Take
    /\ \/ sv.fd /\ WriteData(Now) /\ UNCHANGED <<down, faults>>
       \/ /\ sv.fd /\ Fault
          /\ remote' = [remote EXCEPT ![sv.f] = Unlink(sv.f)]
          /\ sv' = [sv EXCEPT !.fd = FALSE]
          /\ UNCHANGED down
       \/ ~sv.fd /\ UNCHANGED <<sv, down, remote, faults>>

\* A write that fails removes the file and is answered at once; the rest of
\* the data is read and dropped.
HandleData ==
    /\ sv.pc = "file" /\ Asked("DATA") /\ Take
    /\ \/ sv.fd /\ WriteData(Now) /\ UNCHANGED <<down, faults>>
       \/ /\ sv.fd /\ Fault
          /\ remote' = [remote EXCEPT ![sv.f] = Unlink(sv.f)]
          /\ Answer([id |-> "FAIL"], [sv EXCEPT !.fd = FALSE])
       \/ ~sv.fd /\ UNCHANGED <<sv, down, remote, faults>>

\* The end of the data: the time is set, if utime can.
HandleDone ==
    /\ sv.pc = "file" /\ Asked("DONE") /\ Take
    /\ IF sv.fd
       THEN /\ \/ /\ remote' = [remote EXCEPT ![sv.f].time = Head(up).time]
                  /\ UNCHANGED faults
               \/ Fault /\ UNCHANGED remote
            /\ Answer([id |-> "OKAY"], Command)
       ELSE sv' = Command /\ UNCHANGED <<down, remote, faults>>

DoRecv ==
    /\ sv = Command /\ Asked("RECV") /\ Take
    /\ \/ sv' = [pc |-> "read", f |-> Head(up).f, n |-> 1] /\ UNCHANGED <<down, faults>>
       \/ Fault /\ Answer([id |-> "FAIL"], Command)
    /\ UNCHANGED remote

ReadData ==
    /\ sv.pc = "read"
    /\ LET data == remote[sv.f].data
       IN  \/ /\ IF sv.n <= Len(data)
                 THEN Answer([id |-> "DATA", block |-> data[sv.n]], [sv EXCEPT !.n = @ + 1])
                 ELSE Answer([id |-> "DONE"], Command)
              /\ UNCHANGED faults
           \/ Fault /\ Answer([id |-> "FAIL"], Command)
    /\ UNCHANGED <<up, remote>>

DoQuit ==
    /\ sv = Command /\ Asked("QUIT") /\ Take
    /\ sv' = Off
    /\ UNCHANGED <<down, remote, faults>>

\* readx fails: a file that is being sent is removed.
ReadFails ==
    /\ sv.pc \in {"command", "file"} /\ up = <<>> /\ ~open
    /\ remote' = IF sv.pc = "file" THEN [remote EXCEPT ![sv.f] = Unlink(sv.f)] ELSE remote
    /\ sv' = Off
    /\ UNCHANGED <<up, down, faults>>

Service ==
    /\ \/ DoStat \/ DoList \/ ListEntry \/ DoSend \/ HandleData \/ HandleDone
       \/ DoRecv \/ ReadData \/ DoQuit \/ ReadFails
    /\ UNCHANGED <<open, clvars>>

----------------------------------------------------------------------------
Next ==
    \/ DoSyncSync \/ DoSyncPull
    \/ Client \/ Service
    \/ \E f \in Files : Edit(f)
    \/ Break \/ PowerFails

Fairness == WF_vars(Client) /\ WF_vars(Service)

Spec == Init /\ [][Next]_vars /\ Fairness

----------------------------------------------------------------------------
(* Properties *)

\* A file that a sync skips is on the device as it was listed, all of it,
\* whatever interrupted the runs before and whatever was edited meanwhile: the
\* time is set after the last block, and an answer is about the file that it is
\* taken for (copy_local_dir_remote, handle_send_file).  Not so for a file that
\* cannot be unlinked: it is opened without O_TRUNC, and a sync whose reading
\* fails leaves what it had, with the new time.
SkipsOnlyWhole ==
    cl.pc = "next" => \A f \in cl.flag \ Stuck : remote[f].data = Content(cl.time[f])

\* When a pull goes on to its next file, the ones that it is done with are whole
\* or are not there at all (sync_recv).
PullsWhole ==
    cl.pc = "get" => \A i \in 1 .. cl.i - 1 :
        pulled[cl.list[i]] = None \/ pulled[cl.list[i]].data = remote[cl.list[i]].data

\* No part of a file passes for the file: a sync skips only files that the
\* device has, all of them (those it can unlink), and a pull leaves a file whole
\* or not at all, over broken streams, failing calls, losses of power and edits.
CopiesWhole == SkipsOnlyWhole /\ PullsWhole

\* Every run ends, and so does its service: each SEND has exactly one answer,
\* with failing writes too, and each side reads as much as the other writes.
Busy == cl # Idle \/ sv # Off
AtRest == ~Busy
RunEnds == Busy ~> AtRest
=============================================================================
