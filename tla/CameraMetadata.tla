--------------------------- MODULE CameraMetadata ---------------------------
(***************************************************************************)
(* A packet of camera metadata (camera_metadata.c): a table of entries and *)
(* an array of data, both of fixed capacity.  The values of an entry are   *)
(* in the entry itself if they take one word, and otherwise in the data    *)
(* array, at the entry's offset.  Deleting and changing entries closes the *)
(* gaps in the array and moves the offsets of the other entries.           *)
(*                                                                         *)
(* Data are counted in words of four bytes, the room in an entry.  Entries *)
(* and words are numbered from 1, offsets from 0.                          *)
(***************************************************************************)
EXTENDS Integers, Sequences, FiniteSets

CONSTANTS
    Bufs,          \* packets
    Tags,          \* tags, which are numbers
    TypeSize,      \* words per value of a tag's type
    Kinds,         \* kinds of contents, which payloads of the same size differ in
    Counts,        \* numbers of values per entry
    EntryCap,      \* entry_capacity of the packets that callers allocate
    DataCap,       \* data_capacity of those
    MaxTotal,      \* bound: entries in all packets
    EmptySorted    \* entries may be appended to a packet that is empty and marked
                   \* as sorted

VARIABLES
    m,       \* m[b]: the packet, or None
    was      \* history: tag and values of each entry, in order

vars == <<m, was>>

None == [entries |-> <<>>, data |-> <<>>, sorted |-> FALSE, ecap |-> 0, dcap |-> 0,
         nil |-> TRUE]

\* Values for a tag: whole values of the tag's type.
Payload(n, c) == [k \in 1 .. n |-> <<c, k>>]
Payloads(t) == {Payload(n * TypeSize[t], c) : n \in Counts, c \in Kinds}

\* calculate_camera_metadata_entry_data_size
DataSize(words) == IF words <= 1 THEN 0 ELSE words

\* An entry: its tag, how many words of values, and value or offset.
Place(t, vals, at) ==
    [tag |-> t, words |-> Len(vals),
     offset |-> IF DataSize(Len(vals)) = 0 THEN 0 ELSE at,
     value |-> IF DataSize(Len(vals)) = 0 THEN vals ELSE <<>>]

\* get_camera_metadata_entry: the values that the entry refers to.
Get(p, e) ==
    IF e.words > 1 THEN SubSeq(p.data, e.offset + 1, e.offset + e.words) ELSE e.value

Contents(p) == [i \in 1 .. Len(p.entries) |-> <<p.entries[i].tag, Get(p, p.entries[i])>>]

Init ==
    /\ m = [b \in Bufs |-> None]
    /\ was = [b \in Bufs |-> <<>>]

-----------------------------------------------------------------------------
\* allocate_camera_metadata, place_camera_metadata.
New(ecap, dcap) == [None EXCEPT !.ecap = ecap, !.dcap = dcap, !.nil = FALSE]

Allocate(b) ==
    /\ m[b] = None
    /\ m' = [m EXCEPT ![b] = New(EntryCap, DataCap)]
    /\ UNCHANGED was

\* free_camera_metadata
Free(b) ==
    /\ m[b] # None
    /\ m' = [m EXCEPT ![b] = None]
    /\ was' = [was EXCEPT ![b] = <<>>]

\* add_camera_metadata_entry.  It does not look at data_capacity: that the
\* values fit is up to the caller.
Add(b, t, vals) ==
    LET p == m[b] IN
    /\ Len(p.entries) < p.ecap
    /\ Len(p.data) + DataSize(Len(vals)) <= p.dcap
    /\ m' = [m EXCEPT ![b] =
                [p EXCEPT !.entries = Append(@, Place(t, vals, Len(p.data))),
                          !.data = IF DataSize(Len(vals)) = 0 THEN @ ELSE @ \o vals,
                          !.sorted = FALSE]]
    /\ was' = [was EXCEPT ![b] = Append(@, <<t, vals>>)]

\* What append_camera_metadata makes of packet d and the entries of s.
Appended(d, s) ==
    [d EXCEPT !.entries = @ \o [i \in 1 .. Len(s.entries) |->
                                  IF s.entries[i].words > 1
                                  THEN [s.entries[i] EXCEPT !.offset = @ + Len(d.data)]
                                  ELSE s.entries[i]],
              !.data = @ \o s.data,
              !.sorted = IF d.entries = <<>> THEN @ \/ s.sorted
                         ELSE IF s.entries # <<>> THEN FALSE ELSE @]

Fits(d, s) ==
    /\ d.ecap >= Len(s.entries) + Len(d.entries)
    /\ d.dcap >= Len(s.data) + Len(d.data)

\* append_camera_metadata, also of a packet to itself.
AppendTo(d, s) ==
    /\ m[d] # None /\ m[s] # None /\ Fits(m[d], m[s])
    /\ EmptySorted \/ ~(m[d].entries = <<>> /\ m[d].sorted)
    /\ m' = [m EXCEPT ![d] = Appended(m[d], m[s])]
    /\ was' = [was EXCEPT ![d] = @ \o was[s]]

\* clone_camera_metadata; an empty packet cannot be cloned.
Clone(d, s) ==
    /\ m[d] = None /\ m[s].entries # <<>>
    /\ m' = [m EXCEPT ![d] = Appended(New(Len(m[s].entries), Len(m[s].data)), m[s])]
    /\ was' = [was EXCEPT ![d] = was[s]]

\* copy_camera_metadata into a buffer that is large enough.
Copy(d, s) ==
    /\ m[d] = None /\ m[s] # None
    /\ m' = [m EXCEPT ![d] = [m[s] EXCEPT !.ecap = Len(m[s].entries), !.dcap = Len(m[s].data)]]
    /\ was' = [was EXCEPT ![d] = was[s]]

\* sort_camera_metadata; the order that qsort gives to equal tags is open.
Sort(b) ==
    /\ m[b] # None /\ ~m[b].sorted
    /\ LET ix == 1 .. Len(m[b].entries) IN
       \E f \in [ix -> ix] :
          /\ \A i, j \in ix : i # j => f[i] # f[j]
          /\ \A i, j \in ix : i < j => m[b].entries[f[i]].tag <= m[b].entries[f[j]].tag
          /\ m' = [m EXCEPT ![b].entries = [i \in ix |-> m[b].entries[f[i]]],
                            ![b].sorted = TRUE]
          /\ was' = [was EXCEPT ![b] = [i \in ix |-> was[b][f[i]]]]

-----------------------------------------------------------------------------
\* Mutant: entries whose values come before the gap move as well.
CloseGapAll(p, i) ==
    LET n == DataSize(p.entries[i].words)
        at == p.entries[i].offset
    IN  IF n = 0 THEN p
        ELSE [p EXCEPT !.data = SubSeq(@, 1, at) \o SubSeq(@, at + n + 1, Len(@)),
                       !.entries = [j \in 1 .. Len(p.entries) |->
                                      IF DataSize(@[j].words) > 0 /\ j # i /\ @[j].offset >= n
                                      THEN [@[j] EXCEPT !.offset = @ - n] ELSE @[j]]]

\* memmove over the values of entry i, and the offsets behind them.
CloseGap(p, i) ==
    LET n == DataSize(p.entries[i].words)
        at == p.entries[i].offset
    IN  IF n = 0 THEN p
        ELSE [p EXCEPT !.data = SubSeq(@, 1, at) \o SubSeq(@, at + n + 1, Len(@)),
                       !.entries = [j \in 1 .. Len(p.entries) |->
                                      IF DataSize(@[j].words) > 0 /\ @[j].offset > at
                                      THEN [@[j] EXCEPT !.offset = @ - n] ELSE @[j]]]

RemoveAt(s, i) == SubSeq(s, 1, i - 1) \o SubSeq(s, i + 1, Len(s))

\* delete_camera_metadata_entry
Delete(b, i) ==
    /\ m' = [m EXCEPT ![b] = [CloseGap(m[b], i) EXCEPT !.entries = RemoveAt(@, i)]]
    /\ was' = [was EXCEPT ![b] = RemoveAt(@, i)]

\* update_camera_metadata_entry: other values of the same size go where the old
\* ones were, those of another size to the end of the array.
Updated(p, i, vals) ==
    LET e == p.entries[i]
        n == DataSize(Len(vals))
        q == CloseGap(p, i)
    IN  IF n = DataSize(e.words)
        THEN [p EXCEPT !.entries[i] = Place(e.tag, vals, e.offset),
                       !.data = [k \in 1 .. Len(@) |->
                                   IF n > 0 /\ k \in e.offset + 1 .. e.offset + n
                                   THEN vals[k - e.offset] ELSE @[k]]]
        ELSE [q EXCEPT !.entries[i] = Place(e.tag, vals, Len(q.data)),
                       !.data = IF n = 0 THEN @ ELSE @ \o vals]

Update(b, i, vals) ==
    LET p == m[b] IN
    /\ p.dcap >= Len(p.data) + DataSize(Len(vals)) - DataSize(p.entries[i].words)
    /\ m' = [m EXCEPT ![b] = Updated(p, i, vals)]
    /\ was' = [was EXCEPT ![b][i][2] = vals]

Total(w) == Cardinality({<<b, i>> \in Bufs \X (1 .. MaxTotal + 1) : i <= Len(w[b])})

Next ==
    /\ \E b \in Bufs :
        \/ Allocate(b) \/ Free(b) \/ Sort(b)
        \/ \E t \in Tags : \E vals \in Payloads(t) : Add(b, t, vals)
        \/ \E c \in Bufs : AppendTo(b, c) \/ Clone(b, c) \/ Copy(b, c)
        \/ \E i \in 1 .. Len(m[b].entries) :
              \/ Delete(b, i)
              \/ \E vals \in Payloads(m[b].entries[i].tag) : Update(b, i, vals)
    /\ Total(was') <= MaxTotal

Spec == Init /\ [][Next]_vars

-----------------------------------------------------------------------------
\* find_camera_metadata_entry: bsearch, which halves the range, in a packet that
\* is marked as sorted, and otherwise one entry after the other.
Bsearch(es, t) ==
    LET hit[lo \in 1 .. Len(es) + 1, hi \in 0 .. Len(es)] ==
            IF lo > hi THEN 0
            ELSE LET mid == (lo + hi) \div 2
                 IN  CASE es[mid].tag = t -> mid
                       [] es[mid].tag < t -> hit[mid + 1, hi]
                       [] es[mid].tag > t -> hit[lo, mid - 1]
    IN  hit[1, Len(es)]

Find(p, t) ==
    IF p.sorted THEN Bsearch(p.entries, t)
    ELSE LET at == {i \in 1 .. Len(p.entries) : p.entries[i].tag = t}
         IN  IF at = {} THEN 0 ELSE CHOOSE i \in at : \A j \in at : i <= j

\* The words that an entry refers to.
Extent(e) == IF e.words > 1 THEN e.offset + 1 .. e.offset + e.words ELSE {}

\* A packet of metadata keeps its contents: whatever is added, appended, sorted,
\* changed and deleted, each entry has the tag and the values it was given (as
\* get_camera_metadata_entry returns them), every word of the data array belongs
\* to exactly one entry, so that no room is lost, and find_camera_metadata_entry
\* finds each tag that there is, by halving or one by one.
PacketExact ==
    \A b \in Bufs :
        LET p == m[b]
            ix == 1 .. Len(p.entries)
        IN  /\ Contents(p) = was[b]
            /\ Len(p.entries) <= p.ecap /\ Len(p.data) <= p.dcap
            /\ UNION {Extent(p.entries[i]) : i \in ix} = 1 .. Len(p.data)
            /\ \A i, j \in ix :
                  i # j => Extent(p.entries[i]) \cap Extent(p.entries[j]) = {}
            /\ \A t \in Tags : IF \E i \in ix : p.entries[i].tag = t
                               THEN Find(p, t) # 0 /\ p.entries[Find(p, t)].tag = t
                               ELSE Find(p, t) = 0
=============================================================================
