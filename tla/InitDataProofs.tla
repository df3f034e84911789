--------------------------- MODULE InitDataProofs ---------------------------
(***************************************************************************)
(* Two data structures of init.  The lists of libcutils/list.c, of which   *)
(* its action queue is made, keep their order, for any items and any       *)
(* length; list_add_tail has the precondition that the item is not on the  *)
(* list, which init_parser.c does not establish.  The property area can be *)
(* read without a lock, for any readers, names, values and size of the     *)
(* area and of the counter.                                                *)
(***************************************************************************)
EXTENDS IntrusiveList, PropertyArea, TLAPS

-----------------------------------------------------------------------------
(* Lists.                                                                  *)

USE Distinct DEF Distinct

(* list_add_tail appends an item that is not on the list.                  *)
THEOREM AddTailAppends ==
    ASSUME NEW L \in ListType, NEW q \in Seq(Items), Represents(L, q),
           NEW x \in Items, \A i \in 1 .. Len(q) : q[i] # x
    PROVE  Represents(ListAddTail(L, x), Append(q, x))
<1> DEFINE n == Len(q)
           q2 == Append(q, x)
           M == ListAddTail(L, x)
           last == L.prev[Head0]
<1>1. n \in Nat /\ Len(q2) = n + 1 /\ q2[n + 1] = x /\ \A i \in 1 .. n : q2[i] = q[i]
  OBVIOUS
<1>2. \A i \in 1 .. n : q[i] \in Items
  OBVIOUS
<1>3. last = IF n = 0 THEN Head0 ELSE q[n]
  BY DEF Represents
<1>4. last \in Nodes /\ last # x /\ x \in Nodes /\ Head0 \in Nodes /\ x # Head0
  BY <1>1, <1>2, <1>3 DEF Nodes
<1>5. L.next \in [Nodes -> Nodes \cup {Null}] /\ L.prev \in [Nodes -> Nodes \cup {Null}]
  BY DEF ListType
<1>6. /\ M.next = [[L.next EXCEPT ![x] = Head0] EXCEPT ![last] = x]
      /\ M.prev = [[L.prev EXCEPT ![x] = last] EXCEPT ![Head0] = x]
  BY DEF ListAddTail
<1> HIDE DEF M, q2, last
<1>7. /\ M.next[x] = Head0 /\ M.next[last] = x
      /\ M.prev[x] = last /\ M.prev[Head0] = x
      /\ \A y \in Nodes : y # x /\ y # last => M.next[y] = L.next[y]
      /\ \A y \in Nodes : y # x /\ y # Head0 => M.prev[y] = L.prev[y]
  BY <1>4, <1>5, <1>6
<1>8. \A i, j \in 1 .. n + 1 : q2[i] = q2[j] => i = j
  <2>1. \A i, j \in 1 .. n : q[i] = q[j] => i = j
    BY DEF Represents
  <2> QED
    BY <1>1, <2>1
<1>9. M.next[Head0] = q2[1]
  <2>1. CASE n = 0
    BY <1>1, <1>3, <1>7, <2>1
  <2>2. CASE n # 0
    <3>1. L.next[Head0] = q[1] /\ last = q[n] /\ q2[1] = q[1]
      BY <1>1, <1>3, <2>2 DEF Represents
    <3> QED
      BY <1>1, <1>2, <1>4, <1>7, <2>2, <3>1
  <2> QED
    BY <2>1, <2>2
<1>10. ASSUME NEW i \in 1 .. n + 1
       PROVE  /\ M.next[q2[i]] = IF i = n + 1 THEN Head0 ELSE q2[i + 1]
              /\ M.prev[q2[i]] = IF i = 1 THEN Head0 ELSE q2[i - 1]
  <2>1. CASE i = n + 1
    BY <1>1, <1>3, <1>7, <2>1
  <2>2. CASE i \in 1 .. n
    <3>1. /\ q2[i] = q[i] /\ q[i] \in Nodes /\ q[i] # x /\ q[i] # Head0
      BY <1>1, <1>2, <2>2 DEF Nodes
    <3>2. /\ L.next[q[i]] = IF i = n THEN Head0 ELSE q[i + 1]
          /\ L.prev[q[i]] = IF i = 1 THEN Head0 ELSE q[i - 1]
      BY <2>2 DEF Represents
    <3>3. M.prev[q2[i]] = IF i = 1 THEN Head0 ELSE q2[i - 1]
      BY <1>1, <1>7, <2>2, <3>1, <3>2
    <3>4. CASE i = n
      BY <1>1, <1>3, <1>7, <2>2, <3>1, <3>3, <3>4
    <3>5. CASE i # n
      <4>1. q[i] # last
        BY <1>1, <1>3, <2>2, <3>5, SMTT(30) DEF Represents
      <4> QED
        BY <1>1, <1>7, <2>2, <3>1, <3>2, <3>3, <3>5, <4>1
    <3> QED
      BY <3>4, <3>5
  <2> QED
    BY <1>1, <2>1, <2>2
<1> QED
  BY <1>1, <1>7, <1>8, <1>9, <1>10, SMTT(30) DEF Represents, M, q2

(* list_remove of the first item leaves the rest, in order: what           *)
(* action_remove_queue_head does.                                          *)
THEOREM RemoveHeadDropsFirst ==
    ASSUME NEW L \in ListType, NEW q \in Seq(Items), Represents(L, q), Len(q) > 0
    PROVE  /\ L.next[Head0] = q[1]
           /\ Represents(ListRemove(L, q[1]), Tail(q))
<1> DEFINE n == Len(q)
           x == q[1]
           q2 == Tail(q)
           M == ListRemove(L, x)
           nxt == L.next[x]
<1>1. n \in Nat /\ n > 0 /\ \A i \in 1 .. n : q[i] \in Items
  OBVIOUS
<1>2. q2 \in Seq(Items) /\ Len(q2) = n - 1 /\ \A i \in 1 .. n - 1 : q2[i] = q[i + 1]
  <2>1. q # <<>>
    BY <1>1
  <2> QED
    BY <2>1
<1>3. \A i, j \in 1 .. n : q[i] = q[j] => i = j
  BY DEF Represents
<1>4. /\ L.next[Head0] = x /\ L.prev[x] = Head0
      /\ nxt = IF n = 1 THEN Head0 ELSE q[2]
  <2>1. 1 \in 1 .. n /\ 1 + 1 = 2
    BY <1>1
  <2>2. /\ L.next[Head0] = IF n = 0 THEN Head0 ELSE q[1]
        /\ L.next[q[1]] = IF 1 = n THEN Head0 ELSE q[1 + 1]
        /\ L.prev[q[1]] = IF 1 = 1 THEN Head0 ELSE q[1 - 1]
    BY <2>1, Zenon DEF Represents
  <2> QED
    BY <1>1, <2>1, <2>2
<1>5. L.next \in [Nodes -> Nodes \cup {Null}] /\ L.prev \in [Nodes -> Nodes \cup {Null}]
  BY DEF ListType
<1>6. x \in Nodes /\ Head0 \in Nodes /\ x # Head0 /\ nxt \in Nodes /\ nxt # x
  <2>1. q[1] \in Items /\ (n # 1 => q[2] \in Items /\ q[2] # q[1])
    <3>1. CASE n = 1
      BY <1>1, <3>1
    <3>2. CASE n # 1
      <4>0. \A k \in Nat : k > 0 /\ k # 1 => 1 \in 1 .. k /\ 2 \in 1 .. k
        OBVIOUS
      <4>1. 1 \in 1 .. n /\ 2 \in 1 .. n
        BY <1>1, <3>2, <4>0, Zenon
      <4>2. q[1] = q[2] => 1 = 2
        BY <1>3, <4>1
      <4> QED
        BY <1>1, <4>1, <4>2
    <3> QED
      BY <3>1, <3>2
  <2>2. x \in Items /\ (n # 1 => q[2] \in Items /\ q[2] # x)
    BY <2>1
  <2> HIDE DEF x, nxt
  <2> QED
    BY <1>4, <2>2 DEF Nodes
<1>7. /\ M.prev = [L.prev EXCEPT ![nxt] = Head0]
      /\ M.next = [L.next EXCEPT ![Head0] = nxt]
  <2>1. [L.prev EXCEPT ![nxt] = L.prev[x]][x] = Head0
    BY <1>4, <1>5, <1>6
  <2> QED
    BY <1>4, <2>1 DEF ListRemove
<1> HIDE DEF M, q2, nxt
<1>8. /\ M.next[Head0] = nxt /\ M.prev[nxt] = Head0
      /\ \A y \in Nodes : y # Head0 => M.next[y] = L.next[y]
      /\ \A y \in Nodes : y # nxt => M.prev[y] = L.prev[y]
  BY <1>5, <1>6, <1>7
<1>9. ASSUME NEW i \in 1 .. n - 1, NEW j \in 1 .. n - 1, q2[i] = q2[j] PROVE i = j
  <2>1. i + 1 \in 1 .. n /\ j + 1 \in 1 .. n /\ q[i + 1] = q[j + 1]
    BY <1>1, <1>2, <1>9
  <2>2. i + 1 = j + 1
    BY <1>3, <2>1
  <2> QED
    BY <2>2
<1>10. /\ M.next[Head0] = IF n - 1 = 0 THEN Head0 ELSE q2[1]
       /\ M.prev[Head0] = IF n - 1 = 0 THEN Head0 ELSE q2[n - 1]
  <2>1. CASE n = 1
    BY <1>4, <1>8, <2>1
  <2>2. CASE n # 1
    <3>1. nxt = q2[1] /\ q2[n - 1] = q[n] /\ nxt # Head0
      BY <1>1, <1>2, <1>4, <2>2
    <3>2. L.prev[Head0] = q[n]
      BY <1>1 DEF Represents
    <3> QED
      BY <1>1, <1>6, <1>8, <2>2, <3>1, <3>2
  <2> QED
    BY <2>1, <2>2
<1>11. ASSUME NEW i \in 1 .. n - 1
       PROVE  /\ M.next[q2[i]] = IF i = n - 1 THEN Head0 ELSE q2[i + 1]
              /\ M.prev[q2[i]] = IF i = 1 THEN Head0 ELSE q2[i - 1]
  <2>1. /\ q2[i] = q[i + 1] /\ q[i + 1] \in Nodes /\ q[i + 1] # Head0 /\ i + 1 \in 1 .. n
    BY <1>1, <1>2 DEF Nodes
  <2>2. /\ L.next[q[i + 1]] = IF i + 1 = n THEN Head0 ELSE q[i + 2]
        /\ L.prev[q[i + 1]] = q[i]
    BY <1>1, <2>1 DEF Represents
  <2>3. M.next[q2[i]] = IF i = n - 1 THEN Head0 ELSE q2[i + 1]
    BY <1>1, <1>2, <1>8, <2>1, <2>2
  <2>4. CASE i = 1
    <3>1. nxt = q[2]
      BY <1>1, <1>4, <2>1, <2>4
    <3> QED
      BY <1>8, <2>1, <2>3, <2>4, <3>1
  <2>5. CASE i # 1
    <3>1. q[i + 1] # nxt
      BY <1>1, <1>3, <1>4, <2>1, <2>5
    <3>2. q2[i - 1] = q[i]
      BY <1>1, <1>2, <2>5
    <3> QED
      BY <1>8, <2>1, <2>2, <2>3, <2>5, <3>1, <3>2
  <2> QED
    BY <2>4, <2>5
<1> QED
  BY <1>1, <1>2, <1>4, <1>9, <1>10, <1>11, ZenonT(30) DEF Represents, M, q2

(* The precondition matters: added while it is the only item, an item ends *)
(* up as its own successor, and list_for_each no longer comes back to the  *)
(* head.                                                                   *)
THEOREM AddTwiceLoops ==
    ASSUME NEW L \in ListType, NEW x \in Items, Represents(L, <<x>>)
    PROVE  ListAddTail(L, x).next[x] = x /\ ListAddTail(L, x).next[Head0] = x
<1>1. L.prev[Head0] = x /\ L.next[Head0] = x
  BY DEF Represents
<1>2. x \in Nodes /\ Head0 \in Nodes /\ x # Head0 /\ L.next \in [Nodes -> Nodes \cup {Null}]
  BY DEF ListType, Nodes
<1>3. ListAddTail(L, x).next = [[L.next EXCEPT ![x] = Head0] EXCEPT ![x] = x]
  BY <1>1 DEF ListAddTail
<1> QED
  BY <1>1, <1>2, <1>3

HIDE Distinct DEF Distinct

-----------------------------------------------------------------------------
(* The property area.                                                      *)

\* init and the readers that are not idle are at an entry that there is.
Places ==
    /\ w.pc # "idle" => w.i \in 1 .. count /\ w.v \in Values
    /\ \A r \in Readers : rd[r].pc # "idle" => rd[r].i \in 1 .. count

Types == AreaTypeOK /\ Places

\* init is changing entry i.
Dirty(i) == w.pc = "copy" /\ w.i = i

\* An entry is its value, or becomes the new one byte by byte.
EntryOK(i) ==
    /\ Dirty(i) => /\ info[i].serial.ctr % 2 = 1
                   /\ \A k \in Span(Len(w.v)) \ w.left : info[i].text[k] = ByteOf(w.v, k)
    /\ ~Dirty(i) => /\ info[i].serial.ctr % 2 = 0
                    /\ info[i].serial.len = Len(value[i])
                    /\ \A k \in Span(Len(value[i])) : info[i].text[k] = ByteOf(value[i], k)

\* How far the counter of entry i has gone since reader r took the serial.
Ahead(r) == 2 * rd[r].since + (IF Dirty(rd[r].i) THEN 1 ELSE 0)

\* The counter tells a reader how far it has gone, as that is less than the
\* number of its values; and as long as it has not moved, what the reader has
\* copied is what the entry holds.
ReaderOK(r) ==
    rd[r].pc \in {"copy", "check"} =>
        /\ \/ info[rd[r].i].serial.ctr = rd[r].ser.ctr + Ahead(r)
           \/ info[rd[r].i].serial.ctr = rd[r].ser.ctr + Ahead(r) - 2 * Half
        /\ Ahead(r) = 0 =>
              /\ info[rd[r].i].serial = rd[r].ser
              /\ \A k \in Span(rd[r].ser.len) \ rd[r].left : rd[r].buf[k] = info[rd[r].i].text[k]
        /\ rd[r].pc = "check" => rd[r].left = {}

Inv ==
    /\ Types
    /\ \A i \in 1 .. count : EntryOK(i)
    /\ \A r \in Readers : ReaderOK(r)

\* A value and the NUL behind it fit.
LEMMA SpanFits ==
    ASSUME AreaConstants, NEW v \in Values
    PROVE  /\ Len(v) \in 0 .. PropValueMax - 1
           /\ Span(Len(v)) \subseteq Place
           /\ \A k \in Place : ByteOf(v, k) \in Bytes \cup {Nul}
BY SMTT(30) DEF AreaConstants, Span, Place, ByteOf

\* The invariant says what it is for.
LEMMA InvImplies == AreaConstants /\ Inv => ReadIsCurrent
<1> SUFFICES ASSUME AreaConstants, Inv, NEW r \in Readers, rd[r].pc = "check",
                    info[rd[r].i].serial = rd[r].ser
             PROVE  /\ rd[r].ser.len = Len(value[rd[r].i])
                    /\ \A k \in Span(rd[r].ser.len) : rd[r].buf[k] = ByteOf(value[rd[r].i], k)
    BY DEF ReadIsCurrent
<1>1. ReaderOK(r) /\ EntryOK(rd[r].i) /\ rd[r].i \in 1 .. count
    BY DEF Inv, Types, Places
<1>2. Half \in Nat /\ rd[r].since \in 0 .. Half - 1 /\ rd[r].ser.ctr \in Nat
    BY SMTT(30) DEF Inv, Types, AreaTypeOK, AreaConstants, Serial
<1>3. Ahead(r) \in 0 .. 2 * Half - 1
    BY <1>2 DEF Ahead
<1>4. Ahead(r) = 0
    BY <1>1, <1>2, <1>3 DEF ReaderOK
<1>5. ~Dirty(rd[r].i)
    BY <1>2, <1>4 DEF Ahead
<1> QED
    BY <1>1, <1>4, <1>5 DEF ReaderOK, EntryOK

Reader == [pc : {"idle", "serial", "wait", "copy", "check"}, i : Index \cup {0}, ser : Serial,
           left : SUBSET Place, buf : Text, since : 0 .. Half - 1]

\* A step that changes one reader only.
LEMMA OneReader ==
    ASSUME Inv, UNCHANGED <<count, info, value, w, sets>>, NEW r \in Readers,
           rd' \in [Readers -> Reader], \A q \in Readers \ {r} : rd'[q] = rd[q],
           rd'[r].pc # "idle" => rd'[r].i \in 1 .. count, ReaderOK(r)'
    PROVE  Inv'
<1>1. AreaTypeOK'
    BY DEF Inv, Types, AreaTypeOK, Reader
<1>2. Places'
    BY DEF Inv, Types, Places
<1>3. \A i \in 1 .. count' : EntryOK(i)'
    BY ZenonT(30) DEF Inv, EntryOK, Dirty
<1>4. \A q \in Readers : ReaderOK(q)'
    BY DEF Inv, ReaderOK, Ahead, Dirty
<1> QED
    BY <1>1, <1>2, <1>3, <1>4 DEF Inv, Types

\* A reader that starts, waits, is done or starts again has copied nothing.
LEMMA ReaderMoves ==
    ASSUME Inv, NEW r \in Readers, NEW p \in {"idle", "serial", "wait"}, NEW j \in Index \cup {0},
           p # "idle" => j \in 1 .. count,
           rd' = [rd EXCEPT ![r] = [@ EXCEPT !.pc = p, !.i = j]],
           UNCHANGED <<count, info, value, w, sets>>
    PROVE  Inv'
<1>1. rd \in [Readers -> Reader]
    BY DEF Inv, Types, AreaTypeOK, Reader
<1>2. rd[r] \in Reader
    BY <1>1
<1>3. [rd[r] EXCEPT !.pc = p, !.i = j] \in Reader
    BY <1>2, Zenon DEF Reader
<1>4. rd' \in [Readers -> Reader] /\ rd'[r].pc = p /\ rd'[r].i = j
    BY <1>1, <1>2, <1>3 DEF Reader
<1>5. ReaderOK(r)'
    BY <1>4 DEF ReaderOK
<1>6. \A q \in Readers \ {r} : rd'[q] = rd[q]
    BY <1>1
<1>7. rd'[r].pc # "idle" => rd'[r].i \in 1 .. count
    BY <1>4
<1> QED
    BY <1>4, <1>5, <1>6, <1>7, OneReader, Zenon

\* The steps of a reader.
LEMMA ReaderSteps ==
    ASSUME AreaConstants, Inv, NEW r \in Readers
    PROVE  /\ \A i \in 1 .. count : Find(r, i) => Inv'
           /\ Read(r) => Inv'
<1> DEFINE x == rd[r]
<1>1. rd \in [Readers -> Reader] /\ x \in Reader /\ 1 .. count \subseteq Index
    <2>1. rd \in [Readers -> Reader]
        BY DEF Inv, Types, AreaTypeOK, Reader
    <2>2. count \in 0 .. CountMax /\ CountMax \in Nat
        BY DEF Inv, Types, AreaTypeOK, AreaConstants
    <2> QED
        BY <2>1, <2>2 DEF Index
<1>2. x.pc # "idle" => x.i \in 1 .. count
    BY DEF Inv, Types, Places
<1>3. ASSUME NEW i \in 1 .. count, Find(r, i) PROVE Inv'
    <2>1. rd' = [rd EXCEPT ![r] = [@ EXCEPT !.pc = "serial", !.i = i]]
        BY <1>1, <1>3, Zenon DEF Find
    <2> QED
        BY <1>1, <1>3, <2>1, ReaderMoves, Zenon DEF Find
<1>4. ASSUME NEW p \in {"idle", "serial", "wait"}, rd' = [rd EXCEPT ![r].pc = p],
             x.pc # "idle", UNCHANGED <<count, info, value, w, sets>>
      PROVE  Inv'
    <2>1. rd' = [rd EXCEPT ![r] = [@ EXCEPT !.pc = p, !.i = x.i]]
        BY <1>1, <1>4, ZenonT(30) DEF Reader
    <2> QED
        BY <1>1, <1>2, <1>4, <2>1, ReaderMoves, ZenonT(30)
<1>5. CASE FutexWait(r) \/ Return(r) \/ Again(r)
    <2>1. CASE FutexWait(r)
        BY <1>4, <2>1 DEF FutexWait
    <2>2. CASE Return(r)
        BY <1>4, <2>2 DEF Return
    <2>3. CASE Again(r)
        BY <1>4, <2>3, SMTT(30) DEF Again
    <2> QED
        BY <1>5, <2>1, <2>2, <2>3
<1>6. CASE ReadSerial(r)
    <2> DEFINE s == info[x.i].serial
               y == [x EXCEPT !.pc = "copy", !.ser = s, !.left = Span(s.len), !.since = 0]
    <2>1. x.i \in 1 .. count /\ s \in Serial /\ s.ctr % 2 = 0 /\ rd' = [rd EXCEPT ![r] = y]
        BY <1>2, <1>6 DEF ReadSerial, Inv, Types, AreaTypeOK, Entry
    <2>2. Span(s.len) \subseteq Place /\ 0 \in 0 .. Half - 1
        <3>1. s.len \in 0 .. PropValueMax - 1 /\ PropValueMax \in Nat /\ Half \in Nat \ {0, 1}
            BY <2>1, SMTT(30) DEF Serial, AreaConstants
        <3> HIDE DEF s
        <3> QED
            BY <3>1 DEF Span, Place
    <2>3. y \in Reader
        BY <1>1, <2>1, <2>2, ZenonT(30) DEF Reader
    <2>4. y.pc = "copy" /\ y.i = x.i /\ y.ser = s /\ y.left = Span(s.len) /\ y.since = 0
        BY <1>1 DEF Reader
    <2>5. rd'[r] = y /\ rd' \in [Readers -> Reader]
        BY <1>1, <2>1, <2>3
    <2>6. ~Dirty(x.i)
        BY <2>1 DEF Inv, EntryOK
    <2>7. UNCHANGED <<count, info, value, w, sets>>
        BY <1>6 DEF ReadSerial
    <2>8. Ahead(r)' = 0
        BY <2>4, <2>5, <2>6, <2>7 DEF Ahead, Dirty
    <2>9. s.ctr \in Int
        BY <2>1, SMTT(30) DEF Serial
    <2>10. ReaderOK(r)'
        BY <2>4, <2>5, <2>7, <2>8, <2>9 DEF ReaderOK
    <2> QED
        BY <2>1, <2>4, <2>5, <2>7, <2>10, OneReader, Zenon
<1>7. ASSUME NEW k \in Place, CopyOut(r, k) PROVE Inv'
    <2> DEFINE t == info[x.i].text
               y == [x EXCEPT !.buf = [x.buf EXCEPT ![k] = t[k]], !.left = x.left \ {k}]
    <2>1. x.pc = "copy" /\ x.i \in 1 .. count /\ UNCHANGED <<count, info, value, w, sets>>
        BY <1>2, <1>7 DEF CopyOut
    <2>2. rd' = [rd EXCEPT ![r] = y]
        BY <1>1, <1>7 DEF CopyOut, Reader
    <2>3. t \in Text /\ x.buf \in Text /\ x.left \in SUBSET Place
        BY <1>1, <2>1 DEF Inv, Types, AreaTypeOK, Entry, Reader
    <2>4. t[k] \in Bytes \cup {Nul}
        BY <2>3 DEF Text
    <2>5. [x.buf EXCEPT ![k] = t[k]] \in Text /\ x.left \ {k} \in SUBSET Place
        BY <2>3, <2>4 DEF Text
    <2>6. y \in Reader
        BY <1>1, <2>5, Zenon DEF Reader
    <2>7. /\ y.pc = "copy" /\ y.i = x.i /\ y.ser = x.ser /\ y.since = x.since
          /\ y.left = x.left \ {k} /\ y.buf = [x.buf EXCEPT ![k] = t[k]]
        BY <1>1, <2>1 DEF Reader
    <2>8. rd'[r] = y /\ rd' \in [Readers -> Reader] /\ \A q \in Readers \ {r} : rd'[q] = rd[q]
        BY <1>1, <2>2, <2>6
    <2> HIDE DEF y
    <2>9. Ahead(r)' = Ahead(r)
        BY <2>1, <2>7, <2>8 DEF Ahead, Dirty
    <2>10. \A n \in Place : y.buf[n] = IF n = k THEN t[k] ELSE x.buf[n]
        BY <2>3, <2>7 DEF Text
    <2>11. x.ser.len \in 0 .. PropValueMax - 1 /\ PropValueMax \in Nat
        BY <1>1 DEF Reader, Serial, AreaConstants
    <2>12. Span(x.ser.len) \subseteq Place
        BY <2>11 DEF Span, Place
    <2>13. ReaderOK(r)
        BY DEF Inv
    <2>14. ReaderOK(r)'
        BY <2>1, <2>7, <2>8, <2>9, <2>10, <2>12, <2>13, ZenonT(30) DEF ReaderOK
    <2> QED
        BY <2>1, <2>7, <2>8, <2>14, OneReader
<1>8. CASE Copied(r)
    <2> DEFINE y == [x EXCEPT !.pc = "check"]
    <2>1. /\ x.pc = "copy" /\ x.left = {} /\ x.i \in 1 .. count
          /\ UNCHANGED <<count, info, value, w, sets>> /\ rd' = [rd EXCEPT ![r] = y]
        BY <1>1, <1>2, <1>8 DEF Copied
    <2>2. y \in Reader
        BY <1>1 DEF Reader
    <2>3. /\ y.i = x.i /\ y.ser = x.ser /\ y.since = x.since
          /\ y.left = x.left /\ y.buf = x.buf
        BY <1>1 DEF Reader
    <2>4. rd'[r] = y /\ rd' \in [Readers -> Reader] /\ \A q \in Readers \ {r} : rd'[q] = rd[q]
        BY <1>1, <2>1, <2>2
    <2> HIDE DEF y
    <2>5. Ahead(r)' = Ahead(r)
        BY <2>1, <2>3, <2>4 DEF Ahead, Dirty
    <2>6. ReaderOK(r)
        BY DEF Inv
    <2>7. ReaderOK(r)'
        BY <2>1, <2>3, <2>4, <2>5, <2>6, ZenonT(30) DEF ReaderOK
    <2> QED
        BY <2>1, <2>3, <2>4, <2>7, OneReader
<1> QED
    BY <1>3, <1>5, <1>6, <1>7, <1>8 DEF Read

\* What the writer's steps use of the invariant.
LEMMA WriterTypes ==
    ASSUME AreaConstants, Inv
    PROVE  /\ count \in 0 .. CountMax /\ CountMax \in Nat /\ Half \in Nat \ {0, 1}
           /\ PropValueMax \in Nat \ {0}
           /\ info \in [1 .. count -> Entry] /\ value \in [1 .. count -> Values]
           /\ rd \in [Readers -> Reader] /\ sets \in Nat
           /\ w \in [pc : {"idle", "copy", "wake"}, i : Index \cup {0},
                     v : Values \cup {<<>>}, left : SUBSET Place]
           /\ \A i \in 1 .. count : info[i].serial \in Serial /\ info[i].text \in Text
           /\ \A i \in 1 .. count : info[i].serial.ctr \in 0 .. 2 * Half - 1
           /\ \A r \in Readers : rd[r].since \in 0 .. Half - 1 /\ rd[r].ser.ctr \in 0 .. 2 * Half - 1
<1>1. /\ count \in 0 .. CountMax /\ CountMax \in Nat /\ Half \in Nat \ {0, 1}
      /\ PropValueMax \in Nat \ {0}
    BY DEF Inv, Types, AreaTypeOK, AreaConstants
<1>2. /\ info \in [1 .. count -> Entry] /\ value \in [1 .. count -> Values]
      /\ rd \in [Readers -> Reader] /\ sets \in Nat
      /\ w \in [pc : {"idle", "copy", "wake"}, i : Index \cup {0},
                v : Values \cup {<<>>}, left : SUBSET Place]
    BY DEF Inv, Types, AreaTypeOK, Reader
<1>3. \A i \in 1 .. count : info[i].serial \in Serial /\ info[i].text \in Text
    BY <1>2 DEF Entry
<1>4. \A i \in 1 .. count : info[i].serial.ctr \in 0 .. 2 * Half - 1
    BY <1>3 DEF Serial
<1>5. \A r \in Readers : rd[r].since \in 0 .. Half - 1 /\ rd[r].ser \in Serial
    BY <1>2 DEF Reader
<1>6. \A r \in Readers : rd[r].ser.ctr \in 0 .. 2 * Half - 1
    BY <1>5 DEF Serial
<1> QED
    BY <1>1, <1>2, <1>3, <1>4, <1>5, <1>6, Zenon

\* A change of one field of entry i, and of init's own state.
LEMMA OneEntry ==
    ASSUME AreaConstants, Inv, NEW i \in 1 .. count, NEW s \in Serial, NEW t \in Text,
           info' = [info EXCEPT ![i] = [@ EXCEPT !.serial = s, !.text = t]]
    PROVE  /\ info' \in [1 .. count -> Entry]
           /\ info'[i].serial = s /\ info'[i].text = t
           /\ \A j \in 1 .. count : j # i => info'[j] = info[j]
<1>1. info \in [1 .. count -> Entry]
    BY WriterTypes
<1>2. info[i] \in Entry
    BY <1>1
<1> DEFINE e == [info[i] EXCEPT !.serial = s, !.text = t]
<1>3. e \in Entry /\ e.serial = s /\ e.text = t
    BY <1>2, Zenon DEF Entry
<1>4. info' = [info EXCEPT ![i] = e]
    OBVIOUS
<1> HIDE DEF e
<1> QED
    BY <1>1, <1>3, <1>4

\* The counter of a clean entry becomes odd; whoever is reading the entry is
\* one behind from now on.
LEMMA BeginUpdateStep ==
    ASSUME AreaConstants, Inv, NEW i \in 1 .. count, NEW v \in Values, BeginUpdate(i, v)
    PROVE  Inv'
<1> DEFINE c == info[i].serial.ctr
           s == [info[i].serial EXCEPT !.ctr = c + 1]
<1>1. w.pc = "idle" /\ sets' = sets + 1 /\ UNCHANGED <<count, value, rd>>
    BY DEF BeginUpdate
<1>2. info[i] \in Entry /\ info[i].serial \in Serial /\ info[i].text \in Text
      /\ c \in 0 .. 2 * Half - 1 /\ Half \in Nat
    BY WriterTypes, Zenon
<1>3. EntryOK(i) /\ ~Dirty(i)
    BY <1>1 DEF Inv, Dirty
<1>4. c % 2 = 0
    BY <1>3 DEF EntryOK
<1>5. c + 1 \in 0 .. 2 * Half - 1 /\ (c + 1) % 2 = 1
    BY <1>2, <1>4
<1>6. s \in Serial /\ s.ctr = c + 1
    BY <1>2, <1>5 DEF Serial
<1>7. info' = [info EXCEPT ![i] = [@ EXCEPT !.serial = s, !.text = info[i].text]]
    <2>1. info' = [info EXCEPT ![i].serial.ctr = c + 1]
        BY <1>4, Zenon DEF BeginUpdate
    <2>2. [info[i] EXCEPT !.serial = s, !.text = info[i].text] = [info[i] EXCEPT !.serial = s]
        BY <1>2, Zenon DEF Entry
    <2> QED
        BY <2>1, <2>2, Zenon
<1> HIDE DEF s
<1>8. /\ info' \in [1 .. count -> Entry]
      /\ info'[i].serial = s /\ info'[i].text = info[i].text
      /\ \A j \in 1 .. count : j # i => info'[j] = info[j]
    BY <1>2, <1>6, <1>7, OneEntry, Zenon
<1>9. w' = [pc |-> "copy", i |-> i, v |-> v, left |-> Span(Len(v))]
    BY DEF BeginUpdate
<1>10. w'.pc = "copy" /\ w'.i = i /\ w'.v = v /\ w'.left = Span(Len(v))
    BY <1>9
<1>11. w' \in [pc : {"idle", "copy", "wake"}, i : Index \cup {0},
               v : Values \cup {<<>>}, left : SUBSET Place]
    <2>1. i \in Index /\ Span(Len(v)) \in SUBSET Place
        BY WriterTypes, SpanFits, SMTT(30) DEF Index
    <2> QED
        BY <1>9, <2>1
<1>12. AreaTypeOK'
    BY <1>1, <1>8, <1>11, WriterTypes DEF AreaTypeOK, Reader
<1>13. Places'
    BY <1>1, <1>10 DEF Inv, Types, Places
<1>14. ASSUME NEW j \in 1 .. count' PROVE EntryOK(j)'
    <2>1. CASE j = i
        BY <1>5, <1>6, <1>8, <1>10, <2>1, Zenon DEF EntryOK, Dirty
    <2>2. CASE j # i
        <3>1. EntryOK(j) /\ ~Dirty(j) /\ ~Dirty(j)'
            BY <1>1, <1>10, <2>2 DEF Inv, Dirty
        <3>2. info'[j] = info[j] /\ value'[j] = value[j]
            BY <1>1, <1>8, <2>2
        <3> QED
            BY <3>1, <3>2, Zenon DEF EntryOK
    <2> QED
        BY <2>1, <2>2
<1>15. ASSUME NEW r \in Readers, rd[r].pc \in {"copy", "check"} PROVE ReaderOK(r)'
    <2>1. rd[r].i \in 1 .. count /\ ReaderOK(r)
        BY <1>15 DEF Inv, Types, Places
    <2>2. rd[r].since \in 0 .. Half - 1 /\ rd[r].ser.ctr \in 0 .. 2 * Half - 1
        BY WriterTypes, SMTT(30)
    <2>3. CASE rd[r].i = i
        <3>1. Ahead(r) = 2 * rd[r].since /\ Ahead(r)' = 2 * rd[r].since + 1
            BY <1>1, <1>3, <1>10, <2>2, <2>3 DEF Ahead, Dirty
        <3>2. info'[i].serial.ctr = c + 1
            BY <1>6, <1>8
        <3>3. /\ \/ c = rd[r].ser.ctr + Ahead(r)
                 \/ c = rd[r].ser.ctr + Ahead(r) - 2 * Half
              /\ rd[r].pc = "check" => rd[r].left = {}
            BY <1>15, <2>1, <2>3 DEF ReaderOK
        <3>4. /\ \/ info'[i].serial.ctr = rd[r].ser.ctr + Ahead(r)'
                 \/ info'[i].serial.ctr = rd[r].ser.ctr + Ahead(r)' - 2 * Half
              /\ Ahead(r)' # 0
            BY <1>2, <2>2, <3>1, <3>2, <3>3, SMTT(30)
        <3> QED
            BY <1>1, <2>3, <3>3, <3>4 DEF ReaderOK
    <2>4. CASE rd[r].i # i
        <3>1. Ahead(r)' = Ahead(r)
            BY <1>1, <1>10, <2>4, Zenon DEF Ahead, Dirty
        <3> QED
            BY <1>1, <1>8, <2>1, <2>4, <3>1, Zenon DEF ReaderOK
    <2> QED
        BY <2>3, <2>4
<1>16. \A r \in Readers : ReaderOK(r)'
    BY <1>1, <1>15, Zenon DEF ReaderOK
<1> QED
    BY <1>12, <1>13, <1>14, <1>16 DEF Inv, Types

\* A byte moves into an entry that is marked: no reader there trusts it.
LEMMA CopyInStep ==
    ASSUME AreaConstants, Inv, NEW k \in Place, CopyIn(k)
    PROVE  Inv'
<1> DEFINE i == w.i
           t == [info[i].text EXCEPT ![k] = ByteOf(w.v, k)]
<1>1. w.pc = "copy" /\ UNCHANGED <<count, value, rd, sets>>
    BY DEF CopyIn
<1>2. i \in 1 .. count /\ w.v \in Values
    BY <1>1 DEF Inv, Types, Places
<1>3. info[i] \in Entry /\ info[i].serial \in Serial /\ info[i].text \in Text
    BY <1>2, WriterTypes
<1>4. t \in Text /\ \A n \in Place : t[n] = IF n = k THEN ByteOf(w.v, k) ELSE info[i].text[n]
    <2>1. ByteOf(w.v, k) \in Bytes \cup {Nul}
        BY <1>2, SpanFits
    <2> QED
        BY <1>3, <2>1 DEF Text
<1>5. info' = [info EXCEPT ![i] = [@ EXCEPT !.serial = info[i].serial, !.text = t]]
    <2>1. info' = [info EXCEPT ![i] = [info[i] EXCEPT !.text = t]]
        BY DEF CopyIn
    <2>2. [info[i] EXCEPT !.serial = info[i].serial, !.text = t] = [info[i] EXCEPT !.text = t]
        BY <1>3, Zenon DEF Entry
    <2> QED
        BY <2>1, <2>2, Zenon
<1> HIDE DEF t
<1>6. /\ info' \in [1 .. count -> Entry]
      /\ info'[i].serial = info[i].serial /\ info'[i].text = t
      /\ \A j \in 1 .. count : j # i => info'[j] = info[j]
    BY <1>2, <1>3, <1>4, <1>5, OneEntry, ZenonT(30)
<1>7. /\ w' \in [pc : {"idle", "copy", "wake"}, i : Index \cup {0},
                 v : Values \cup {<<>>}, left : SUBSET Place]
      /\ w'.pc = "copy" /\ w'.i = i /\ w'.v = w.v /\ w'.left = w.left \ {k}
    BY <1>1, WriterTypes, Zenon DEF CopyIn
<1>8. AreaTypeOK'
    BY <1>1, <1>6, <1>7, WriterTypes DEF AreaTypeOK, Reader
<1>9. Places'
    BY <1>1, <1>2, <1>7 DEF Inv, Types, Places
<1>10. \A j : Dirty(j)' = Dirty(j) /\ (Dirty(j) <=> j = i)
    BY <1>1, <1>7 DEF Dirty
<1>11. ASSUME NEW j \in 1 .. count' PROVE EntryOK(j)'
    <2>1. CASE j = i
        <3>1. EntryOK(i)
            BY <1>2 DEF Inv
        <3>2. Span(Len(w.v)) \subseteq Place
            BY <1>2, SpanFits
        <3>3. \A n \in Span(Len(w.v)) \ w'.left : t[n] = ByteOf(w.v, n)
            BY <1>4, <1>7, <1>10, <3>1, <3>2, SMTT(30) DEF EntryOK
        <3> QED
            BY <1>6, <1>7, <1>10, <2>1, <3>1, <3>3, ZenonT(30) DEF EntryOK
    <2>2. CASE j # i
        <3>1. EntryOK(j) /\ ~Dirty(j) /\ ~Dirty(j)'
            BY <1>1, <1>10, <2>2 DEF Inv
        <3>2. info'[j] = info[j] /\ value'[j] = value[j]
            BY <1>1, <1>6, <2>2
        <3> QED
            BY <3>1, <3>2 DEF EntryOK
    <2> QED
        BY <2>1, <2>2, Zenon
<1>12. ASSUME NEW r \in Readers, rd[r].pc \in {"copy", "check"} PROVE ReaderOK(r)'
    <2>1. rd[r].i \in 1 .. count /\ ReaderOK(r) /\ rd[r].since \in Nat
        BY <1>12, WriterTypes DEF Inv, Types, Places
    <2>2. Ahead(r)' = Ahead(r)
        BY <1>1, <1>10, Zenon DEF Ahead
    <2>3. CASE rd[r].i = i
        <3>1. Ahead(r) # 0
            BY <1>10, <2>1, <2>3, SMTT(30) DEF Ahead
        <3> QED
            BY <1>1, <1>6, <2>1, <2>2, <2>3, <3>1, Zenon DEF ReaderOK
    <2>4. CASE rd[r].i # i
        BY <1>1, <1>6, <2>1, <2>2, <2>4, Zenon DEF ReaderOK
    <2> QED
        BY <2>3, <2>4
<1>13. \A r \in Readers : ReaderOK(r)'
    BY <1>1, <1>12, Zenon DEF ReaderOK
<1> QED
    BY <1>8, <1>9, <1>11, <1>13 DEF Inv, Types

\* The counter of a marked entry moves on by one, modulo the number of values.
LEMMA UpOdd ==
    ASSUME Half \in Nat \ {0, 1}, NEW c \in 0 .. 2 * Half - 1, c % 2 = 1
    PROVE  /\ Up(c) \in 0 .. 2 * Half - 1 /\ Up(c) % 2 = 0
           /\ Up(c) = c + 1 \/ (c = 2 * Half - 1 /\ Up(c) = c + 1 - 2 * Half)
BY DEF Up

\* When every byte has been moved, the entry is its new value; whoever is
\* reading it is one further behind, and not a whole turn of the counter.
LEMMA PublishStep ==
    ASSUME AreaConstants, Inv, Publish
    PROVE  Inv'
<1> DEFINE i == w.i
           c == info[i].serial.ctr
           s == [len |-> Len(w.v), ctr |-> Up(c)]
<1>1. w.pc = "copy" /\ w.left = {} /\ UNCHANGED <<count, sets>> /\ CountUpdate(i)
    BY DEF Publish
<1>2. i \in 1 .. count /\ w.v \in Values /\ Dirty(i)
    BY <1>1 DEF Inv, Types, Places, Dirty
<1>3. info[i] \in Entry /\ info[i].text \in Text /\ c \in 0 .. 2 * Half - 1
      /\ Half \in Nat \ {0, 1}
    BY <1>2, WriterTypes
<1>4. EntryOK(i) /\ c % 2 = 1
    BY <1>2 DEF Inv, EntryOK
<1>5. /\ Up(c) \in 0 .. 2 * Half - 1 /\ Up(c) % 2 = 0
      /\ Up(c) = c + 1 \/ (c = 2 * Half - 1 /\ Up(c) = c + 1 - 2 * Half)
    BY <1>3, <1>4, UpOdd, Zenon
<1>6. s \in Serial /\ s.ctr = Up(c) /\ s.len = Len(w.v)
    BY <1>2, <1>5, SpanFits, Zenon DEF Serial
<1>7. info' = [info EXCEPT ![i] = [@ EXCEPT !.serial = s, !.text = info[i].text]]
    <2>1. info' = [info EXCEPT ![i] = [info[i] EXCEPT !.serial = s]]
        BY DEF Publish
    <2>2. [info[i] EXCEPT !.serial = s, !.text = info[i].text] = [info[i] EXCEPT !.serial = s]
        BY <1>3, Zenon DEF Entry
    <2> QED
        BY <2>1, <2>2, Zenon
<1> HIDE DEF s
<1>8. /\ info' \in [1 .. count -> Entry]
      /\ info'[i].serial = s /\ info'[i].text = info[i].text
      /\ \A j \in 1 .. count : j # i => info'[j] = info[j]
    BY <1>2, <1>3, <1>6, <1>7, OneEntry, Zenon
<1>9. /\ value' \in [1 .. count -> Values] /\ value'[i] = w.v
      /\ \A j \in 1 .. count : j # i => value'[j] = value[j]
    BY <1>2, WriterTypes DEF Publish
<1>10. /\ w' \in [pc : {"idle", "copy", "wake"}, i : Index \cup {0},
                  v : Values \cup {<<>>}, left : SUBSET Place]
       /\ w'.pc = "wake" /\ w'.i = i /\ w'.v = w.v
    BY WriterTypes, Zenon DEF Publish
<1>11. \A j : ~Dirty(j)' /\ (Dirty(j) <=> j = i)
    BY <1>1, <1>10, SMTT(30) DEF Dirty
<1>12. ASSUME NEW r \in Readers
       PROVE  /\ rd'[r] \in Reader
              /\ rd'[r].pc = rd[r].pc /\ rd'[r].i = rd[r].i /\ rd'[r].ser = rd[r].ser
              /\ rd'[r].left = rd[r].left /\ rd'[r].buf = rd[r].buf
              /\ Reading(r, i) => rd'[r].since = rd[r].since + 1 /\ rd[r].since < Half - 1
              /\ ~Reading(r, i) => rd'[r] = rd[r]
    <2> DEFINE x == rd[r]
               y == [x EXCEPT !.since = x.since + 1]
    <2>1. x \in Reader /\ x.since \in 0 .. Half - 1
        BY WriterTypes
    <2>2. rd'[r] = IF Reading(r, i) THEN y ELSE x
        BY <1>1 DEF CountUpdate
    <2>3. Reading(r, i) => x.since < Half - 1
        BY <1>1 DEF CountUpdate
    <2>4. Reading(r, i) => x.since + 1 \in 0 .. Half - 1
        BY <1>3, <2>1, <2>3
    <2>5. Reading(r, i) => y \in Reader
        BY <2>1, <2>4 DEF Reader
    <2>6. /\ y.pc = x.pc /\ y.i = x.i /\ y.ser = x.ser /\ y.left = x.left /\ y.buf = x.buf
          /\ y.since = x.since + 1
        BY <2>1 DEF Reader
    <2> HIDE DEF y
    <2> QED
        BY <2>1, <2>2, <2>3, <2>5, <2>6
<1>13. rd' \in [Readers -> Reader]
    <2>1. rd' = [r \in Readers |-> rd'[r]]
        BY <1>1, Zenon DEF CountUpdate
    <2> QED
        BY <1>12, <2>1
<1>14. AreaTypeOK'
    BY <1>1, <1>8, <1>9, <1>10, <1>13, WriterTypes, Zenon DEF AreaTypeOK, Reader
<1>15. Places'
    BY <1>1, <1>2, <1>10, <1>12, Zenon DEF Inv, Types, Places
<1>16. ASSUME NEW j \in 1 .. count' PROVE EntryOK(j)'
    <2>1. CASE j = i
        <3>1. \A k \in Span(Len(w.v)) : info[i].text[k] = ByteOf(w.v, k)
            BY <1>1, <1>2, <1>4, Zenon DEF EntryOK
        <3> QED
            BY <1>5, <1>6, <1>8, <1>9, <1>11, <2>1, <3>1, Zenon DEF EntryOK
    <2>2. CASE j # i
        <3>1. EntryOK(j) /\ ~Dirty(j) /\ ~Dirty(j)'
            BY <1>1, <1>11, <2>2, Zenon DEF Inv
        <3>2. info'[j] = info[j] /\ value'[j] = value[j]
            BY <1>1, <1>8, <1>9, <2>2
        <3> QED
            BY <3>1, <3>2, Zenon DEF EntryOK
    <2> QED
        BY <2>1, <2>2, Zenon
<1>17. ASSUME NEW r \in Readers, rd[r].pc \in {"copy", "check"} PROVE ReaderOK(r)'
    <2>1. rd[r].i \in 1 .. count /\ ReaderOK(r)
        BY <1>17 DEF Inv, Types, Places
    <2>2. rd[r].since \in 0 .. Half - 1 /\ rd[r].ser.ctr \in 0 .. 2 * Half - 1
        BY WriterTypes, Zenon
    <2>3. CASE rd[r].i = i
        <3>1. rd'[r].since = rd[r].since + 1 /\ rd[r].since < Half - 1
            BY <1>12, <1>17, <2>3, Zenon DEF Reading
        <3>2. Ahead(r) = 2 * rd[r].since + 1 /\ Ahead(r)' = 2 * rd[r].since + 2
            BY <1>11, <1>12, <2>2, <2>3, <3>1 DEF Ahead
        <3>3. /\ \/ c = rd[r].ser.ctr + Ahead(r)
                 \/ c = rd[r].ser.ctr + Ahead(r) - 2 * Half
              /\ rd[r].pc = "check" => rd[r].left = {}
            BY <1>17, <2>1, <2>3, ZenonT(30) DEF ReaderOK
        <3>4. /\ \/ Up(c) = rd[r].ser.ctr + Ahead(r)'
                 \/ Up(c) = rd[r].ser.ctr + Ahead(r)' - 2 * Half
              /\ Ahead(r)' # 0
            BY <1>3, <1>5, <2>2, <3>1, <3>2, <3>3
        <3>5. info'[i].serial.ctr = Up(c)
            BY <1>6, <1>8, Zenon
        <3> QED
            BY <1>12, <2>3, <3>3, <3>4, <3>5, ZenonT(30) DEF ReaderOK
    <2>4. CASE rd[r].i # i
        <3>1. rd'[r] = rd[r]
            BY <1>12, <2>4, Zenon DEF Reading
        <3>2. Ahead(r)' = Ahead(r)
            BY <1>11, <2>4, <3>1, Zenon DEF Ahead
        <3> QED
            BY <1>8, <2>1, <2>4, <3>1, <3>2, ZenonT(30) DEF ReaderOK
    <2> QED
        BY <2>3, <2>4
<1>18. \A r \in Readers : ReaderOK(r)'
    BY <1>12, <1>17, Zenon DEF ReaderOK
<1> QED
    BY <1>14, <1>15, <1>16, <1>18 DEF Inv, Types

\* Waking the sleepers changes nothing a reader has copied.
LEMMA WakeStep ==
    ASSUME AreaConstants, Inv, Wake
    PROVE  Inv'
<1>1. w.pc = "wake" /\ UNCHANGED <<count, info, value, sets>>
    BY DEF Wake
<1>2. /\ w' \in [pc : {"idle", "copy", "wake"}, i : Index \cup {0},
                 v : Values \cup {<<>>}, left : SUBSET Place]
      /\ w'.pc = "idle"
    BY WriterTypes, ZenonT(30) DEF Wake
<1>3. \A j : ~Dirty(j) /\ ~Dirty(j)'
    BY <1>1, <1>2 DEF Dirty
<1>4. ASSUME NEW r \in Readers
      PROVE  /\ rd'[r] \in Reader /\ rd'[r].i = rd[r].i
             /\ rd[r].pc = "idle" => rd'[r].pc = "idle"
             /\ rd'[r].pc \in {"copy", "check"} => rd'[r] = rd[r]
    <2> DEFINE y == [rd[r] EXCEPT !.pc = "serial"]
    <2>1. rd[r] \in Reader
        BY WriterTypes
    <2>2. rd'[r] = IF rd[r].pc = "wait" /\ rd[r].i = w.i THEN y ELSE rd[r]
        BY DEF Wake
    <2>3. y \in Reader /\ y.pc = "serial" /\ y.i = rd[r].i
        BY <2>1 DEF Reader
    <2> HIDE DEF y
    <2> QED
        BY <2>1, <2>2, <2>3
<1>5. rd' \in [Readers -> Reader]
    <2>1. rd' = [r \in Readers |-> rd'[r]]
        BY DEF Wake
    <2> QED
        BY <1>4, <2>1
<1>6. AreaTypeOK'
    BY <1>1, <1>2, <1>5, WriterTypes, Zenon DEF AreaTypeOK, Reader
<1>7. Places'
    BY <1>1, <1>2, <1>4, Zenon DEF Inv, Types, Places
<1>8. \A j \in 1 .. count' : EntryOK(j)'
    BY <1>1, <1>3, Zenon DEF Inv, EntryOK
<1>9. ASSUME NEW r \in Readers, rd'[r].pc \in {"copy", "check"} PROVE ReaderOK(r)'
    <2>1. ReaderOK(r) /\ rd'[r] = rd[r]
        BY <1>4, <1>9 DEF Inv
    <2>2. Ahead(r)' = Ahead(r)
        BY <1>3, <2>1, Zenon DEF Ahead
    <2> QED
        BY <1>1, <2>1, <2>2, Zenon DEF ReaderOK
<1>10. \A r \in Readers : ReaderOK(r)'
    BY <1>9, Zenon DEF ReaderOK
<1> QED
    BY <1>6, <1>7, <1>8, <1>10 DEF Inv, Types

\* The area is empty at first.
LEMMA InitOK == AreaConstants /\ AreaInit => Inv
<1> SUFFICES ASSUME AreaConstants, AreaInit PROVE Inv
    OBVIOUS
<1>1. /\ CountMax \in Nat /\ PropValueMax \in Nat \ {0} /\ Half \in Nat \ {0, 1}
    BY DEF AreaConstants
<1>2. Blank.serial \in Serial /\ Blank.text \in Text /\ 0 \in 0 .. Half - 1
    <2>1. 0 \in 0 .. PropValueMax - 1 /\ 0 \in 0 .. 2 * Half - 1 /\ 0 \in 0 .. Half - 1
        BY <1>1
    <2> QED
        BY <2>1 DEF Blank, Serial, Text
<1>3. count = 0 /\ info = <<>> /\ value = <<>> /\ sets = 0 /\ 1 .. count = {}
    BY DEF AreaInit
<1>4. info \in [1 .. count -> Entry] /\ value \in [1 .. count -> Values]
    BY <1>3, SMTT(30)
<1>5. /\ w \in [pc : {"idle", "copy", "wake"}, i : Index \cup {0},
                v : Values \cup {<<>>}, left : SUBSET Place]
      /\ w.pc = "idle"
    BY DEF AreaInit
<1>6. rd \in [Readers -> Reader] /\ \A r \in Readers : rd[r].pc = "idle"
    <2> DEFINE x == [pc |-> "idle", i |-> 0, ser |-> Blank.serial, left |-> {},
                     buf |-> Blank.text, since |-> 0]
    <2>1. x \in Reader /\ x.pc = "idle"
        BY <1>2, Zenon DEF Reader
    <2>2. rd = [r \in Readers |-> x]
        BY Zenon DEF AreaInit
    <2> HIDE DEF x
    <2> QED
        BY <2>1, <2>2
<1>7. AreaTypeOK
    BY <1>1, <1>3, <1>4, <1>5, <1>6 DEF AreaTypeOK, Reader
<1> QED
    BY <1>3, <1>5, <1>6, <1>7, Zenon DEF Inv, Types, Places, ReaderOK

INSTANCE SequenceTheorems

\* A function on 1 .. n is a sequence of length n,
LEMMA AsSeq ==
    ASSUME NEW S, NEW n \in Nat, NEW f \in [1 .. n -> S]
    PROVE  f \in Seq(S) /\ Len(f) = n
<1>1. f \in Seq(S)
    BY SeqDef
<1>2. DOMAIN f = 1 .. n /\ DOMAIN f = 1 .. Len(f) /\ Len(f) \in Nat
    BY <1>1, LenProperties
<1> QED
    BY <1>1, <1>2

\* and this is what Append makes of it.
LEMMA AppendTo ==
    ASSUME NEW S, NEW f \in Seq(S), NEW x \in S
    PROVE  /\ Append(f, x) \in [1 .. Len(f) + 1 -> S] /\ Append(f, x)[Len(f) + 1] = x
           /\ \A i \in 1 .. Len(f) : Append(f, x)[i] = f[i]
<1>1. /\ Append(f, x) \in Seq(S) /\ Len(Append(f, x)) = Len(f) + 1
      /\ Append(f, x)[Len(f) + 1] = x
      /\ \A i \in 1 .. Len(f) : Append(f, x)[i] = f[i]
    BY AppendProperties
<1>2. Append(f, x) \in [1 .. Len(Append(f, x)) -> S]
    BY <1>1, LenProperties, Zenon
<1> QED
    BY <1>1, <1>2

\* A new entry is complete before it can be found.
LEMMA InsertStep ==
    ASSUME AreaConstants, Inv, NEW n \in Names, NEW v \in Values, Insert(n, v)
    PROVE  Inv'
<1> DEFINE e == [name |-> n, serial |-> [len |-> Len(v), ctr |-> 0],
                 text |-> [k \in Place |-> ByteOf(v, k)]]
<1>1. /\ w.pc = "idle" /\ count < CountMax /\ count' = count + 1 /\ sets' = sets + 1
      /\ info' = Append(info, e) /\ value' = Append(value, v) /\ UNCHANGED <<w, rd>>
    BY Zenon DEF Insert
<1>2. e \in Entry
    <2>1. [k \in Place |-> ByteOf(v, k)] \in Text
        BY SpanFits, SMTT(30) DEF Text
    <2>2. 0 \in 0 .. 2 * Half - 1 /\ Len(v) \in 0 .. PropValueMax - 1
        BY WriterTypes, SpanFits
    <2>3. [len |-> Len(v), ctr |-> 0] \in Serial
        BY <2>2 DEF Serial
    <2> QED
        BY <2>1, <2>3, Zenon DEF Entry
<1>3. /\ e.serial.ctr = 0 /\ e.serial.len = Len(v)
      /\ \A k \in Place : e.text[k] = ByteOf(v, k)
    BY SMTT(30)
<1> HIDE DEF e
<1>4. /\ info' \in [1 .. count' -> Entry] /\ info'[count + 1] = e
      /\ \A i \in 1 .. count : info'[i] = info[i]
    <2>0. count \in Nat /\ info \in [1 .. count -> Entry]
        BY WriterTypes
    <2>1. info \in Seq(Entry) /\ Len(info) = count
        BY <2>0, AsSeq, ZenonT(30)
    <2> QED
        BY <1>1, <1>2, <2>1, WriterTypes, AppendTo, SMTT(30)
<1>5. /\ value' \in [1 .. count' -> Values] /\ value'[count + 1] = v
      /\ \A i \in 1 .. count : value'[i] = value[i]
    <2>0. count \in Nat /\ value \in [1 .. count -> Values]
        BY WriterTypes
    <2>1. value \in Seq(Values) /\ Len(value) = count
        BY <2>0, AsSeq, ZenonT(30)
    <2> QED
        BY <1>1, <2>1, WriterTypes, AppendTo, SMTT(30)
<1>6. AreaTypeOK'
    BY <1>1, <1>4, <1>5, WriterTypes, SMTT(30) DEF AreaTypeOK, Reader
<1>7. Places'
    BY <1>1, WriterTypes, SMTT(30) DEF Inv, Types, Places
<1>8. ASSUME NEW i \in 1 .. count' PROVE EntryOK(i)'
    <2>1. CASE i \in 1 .. count
        BY <1>1, <1>4, <1>5, <2>1, ZenonT(30) DEF Inv, EntryOK, Dirty
    <2>2. CASE i = count + 1
        BY <1>1, <1>3, <1>4, <1>5, <2>2, SpanFits, SMTT(30) DEF EntryOK, Dirty
    <2> QED
        BY <1>1, <2>1, <2>2, WriterTypes
<1>9. ASSUME NEW r \in Readers PROVE ReaderOK(r)'
    <2>1. rd[r].pc # "idle" => rd[r].i \in 1 .. count
        BY Zenon DEF Inv, Types, Places
    <2>2. ReaderOK(r)
        BY Zenon DEF Inv
    <2>3. Ahead(r)' = Ahead(r)
        BY <1>1, Zenon DEF Ahead, Dirty
    <2> QED
        BY <1>1, <1>4, <2>1, <2>2, <2>3, Zenon DEF ReaderOK
<1> QED
    BY <1>6, <1>7, <1>8, <1>9 DEF Inv, Types

\* Every step keeps the invariant.
LEMMA StepOK == AreaConstants /\ Inv /\ [AreaNext]_areaVars => Inv'
<1> SUFFICES ASSUME AreaConstants, Inv, [AreaNext]_areaVars PROVE Inv'
    OBVIOUS
<1>1. ASSUME NEW n \in Names, NEW v \in Values, Insert(n, v) PROVE Inv'
    BY <1>1, InsertStep
<1>2. ASSUME NEW i \in 1 .. count, NEW v \in Values, BeginUpdate(i, v) PROVE Inv'
    BY <1>2, BeginUpdateStep
<1>3. CASE Write
    BY <1>3, CopyInStep, PublishStep, WakeStep DEF Write
<1>4. ASSUME NEW r \in Readers, Read(r) \/ \E i \in 1 .. count : Find(r, i) PROVE Inv'
    BY <1>4, ReaderSteps, SMTT(30)
<1>5. CASE UNCHANGED areaVars
    <2>1. Types' /\ Places'
        BY <1>5, Zenon DEF areaVars, Inv, Types, AreaTypeOK, Places
    <2> USE <1>5 DEF areaVars
    <2>2. \A i \in 1 .. count : EntryOK(i)'
        <3>1. ASSUME NEW i PROVE Dirty(i)' <=> Dirty(i)
            BY Zenon DEF Dirty
        <3>2. ASSUME NEW i \in 1 .. count PROVE EntryOK(i)'
            BY <3>1, ZenonT(30) DEF EntryOK, Inv
        <3> QED  BY <3>2
    <2>3. \A r \in Readers : ReaderOK(r)'
        <3>1. ASSUME NEW r PROVE Ahead(r)' = Ahead(r)
            BY Zenon DEF Ahead, Dirty
        <3>2. ASSUME NEW r \in Readers PROVE ReaderOK(r)'
            BY <3>1, ZenonT(30) DEF ReaderOK, Inv
        <3> QED  BY <3>2
    <2> QED
        BY <2>1, <2>2, <2>3, Zenon DEF Inv
<1> QED
    BY <1>1, <1>2, <1>3, <1>4, <1>5 DEF AreaNext

\* Whatever property_set does while a process copies a value, what
\* __system_property_read returns is the value update_prop_info or property_set
\* published last, whole, for every number of readers and every size of the
\* area, of the values and of the counter, as long as no read lasts for a whole
\* turn of the counter.
THEOREM ReadsAreCurrent == AreaSpec => []ReadIsCurrent
<1>1. AreaInit => Inv
    BY InitOK, AreaFits
<1>2. Inv /\ [AreaNext]_areaVars => Inv'
    BY StepOK, AreaFits
<1>3. Inv => ReadIsCurrent
    BY InvImplies, AreaFits
<1> QED
    BY <1>1, <1>2, <1>3, PTL DEF AreaSpec
=============================================================================
