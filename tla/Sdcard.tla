------------------------------- MODULE Sdcard -------------------------------
(***************************************************************************)
(* The emulated card (core/sdcard/sdcard.c): a FUSE daemon whose handler   *)
(* threads share a tree of reference-counted nodes.  A handler takes the   *)
(* lock to turn a node into a path, drops it for the system call on the    *)
(* storage, and takes it again to update the tree.  The kernel's side (its *)
(* directory locks, the names it has cached, the lookups it will forget)   *)
(* is external.  Names are compared without case on the storage.           *)
(***************************************************************************)
EXTENDS Naturals, Sequences, FiniteSets, SequencesExt

CONSTANTS
    Nodes,      \* addresses of nodes, positive numbers; the root is 0
    Names, Fold(_),  \* file names, and their form without case
    Threads,
    Paths,      \* the paths the storage may hold: sequences of names
    MaxReqs,    \* bound on the requests
    MaxLook     \* bound on the lookups of one node the kernel holds

VARIABLES
    node,       \* node[n] = [ref, parent, name, actual]; ref = 0: free
    child,      \* child[n]: the children of n, the newest first
    disk,       \* the paths that exist on the storage
    req,        \* req[t]: the request thread t works on, or Idle
    look,       \* external: look[n], the lookups of n the kernel holds
    cached,     \* external: <<directory, name, node>> triples the kernel has cached
    forgets,    \* external: forget requests that are queued, <<node, count>>
    sent        \* requests so far

vars == <<node, child, disk, req, look, cached, forgets, sent>>

Root == 0
All == Nodes \cup {Root}
Idle == [op |-> "idle"]
Free == [ref |-> 0, parent |-> Root, name |-> "", actual |-> ""]
Live(n) == node[n].ref > 0

TypeOK ==
    /\ \A n \in Nodes : /\ node[n].ref \in 0 .. 2 * MaxLook + Cardinality(Nodes) + Cardinality(Threads)
                        /\ node[n].parent \in All /\ look[n] \in 0 .. MaxLook
    /\ disk \subseteq Paths
    /\ \A t \in Threads : req[t].op \in {"idle", "lookup", "create", "remove", "rename", "access"}

Init ==
    /\ node = [n \in All |-> IF n = Root THEN [Free EXCEPT !.ref = 2] ELSE Free]
    /\ child = [n \in All |-> <<>>]
    /\ disk \in {{}, Paths} /\ sent = 0 /\ req = [t \in Threads |-> Idle]
    /\ look = [n \in Nodes |-> 0] /\ cached = {} /\ forgets = {}

(* get_node_path_locked. *)
RECURSIVE PathOf(_)
PathOf(n) == IF n = Root THEN <<>> ELSE Append(PathOf(node[n].parent), node[n].actual)

(* release_node_locked on a tree s = [node, child]: the last reference     *)
(* takes the node out of its parent, which loses one as well; a count of   *)
(* zero is only logged.                                                    *)
RECURSIVE Release(_, _)
Release(s, n) ==
    IF s.node[n].ref = 0 THEN s
    ELSE IF s.node[n].ref > 1 THEN [s EXCEPT !.node[n].ref = @ - 1]
    ELSE LET p == s.node[n].parent IN
         Release([s EXCEPT !.node[n] = Free, !.child[p] = SelectSeq(@, LAMBDA c : c # n)], p)

RECURSIVE ReleaseTimes(_, _, _)
ReleaseTimes(s, n, k) == IF k = 0 THEN s ELSE ReleaseTimes(Release(s, n), n, k - 1)

(* Mutant: a directory does not hold its parent. *)
AttachLoose(s, n, p) == [s EXCEPT !.node[n].parent = p, !.child[p] = <<n>> \o @]

(* add_node_to_parent_locked. *)
Attach(s, n, p) == [s EXCEPT !.node[n].parent = p, !.child[p] = <<n>> \o @, !.node[p].ref = @ + 1]

(* remove_node_from_parent_locked. *)
Detach(s, n) ==
    LET p == s.node[n].parent IN
    Release([s EXCEPT !.child[p] = SelectSeq(@, LAMBDA c : c # n)], p)

Tree == [node |-> node, child |-> child]
SetTree(s) == node' = s.node /\ child' = s.child

(* lookup_child_by_name_locked: the first child with exactly that name.    *)
Named(p, name) == SelectSeq(child[p], LAMBDA c : node[c].name = name)

(* find_file_within: the name as given when it exists, else one that       *)
(* differs by case, else the name as given.                                *)
Found(dir, name, search) ==
    LET alike == {m \in Names : Fold(m) = Fold(name) /\ Append(dir, m) \in disk} IN
    IF ~search \/ name \in alike \/ alike = {} THEN name ELSE CHOOSE m \in alike : TRUE
-----------------------------------------------------------------------------
Send == sent < MaxReqs /\ sent' = sent + 1

(* The kernel sends a request on a directory whose lock it holds; it has   *)
(* the names it removes or renames in its cache.  The handler's first part *)
(* turns nodes into paths.                                                 *)
Known(n) == n \in {Root} \cup {m \in Nodes : look[m] > 0}
Held(n) == \E t \in Threads : req[t].op \notin {"idle", "access"} /\ n \in {req[t].dir, req[t].dir2}

Begin(t, op, d, name) ==
    /\ req[t] = Idle /\ Send /\ Known(d) /\ ~Held(d)
    /\ op = "remove" => \E n \in Nodes : <<d, name, n>> \in cached
    /\ req' = [req EXCEPT ![t] = [op |-> op, phase |-> "io", dir |-> d, dir2 |-> d, name |-> name,
                                  name2 |-> name, node |-> d, path |-> PathOf(d), path2 |-> PathOf(d),
                                  actual |-> name]]
    /\ UNCHANGED <<node, child, disk, look, cached, forgets>>

(* getattr, setattr, open, opendir: a path and a call on it.               *)
BeginAccess(t, n) ==
    /\ req[t] = Idle /\ Send /\ look[n] > 0
    /\ req' = [req EXCEPT ![t] = [op |-> "access", phase |-> "io", dir |-> n, dir2 |-> n, name |-> "",
                                  name2 |-> "", node |-> n, path |-> PathOf(n), path2 |-> PathOf(n),
                                  actual |-> ""]]
    /\ UNCHANGED <<node, child, disk, look, cached, forgets>>

(* The first part of handle_rename also holds the node that is renamed.    *)
BeginRename(t, d, name, e, new) ==
    /\ req[t] = Idle /\ Send /\ Known(d) /\ Known(e) /\ ~Held(d) /\ ~Held(e)
    /\ \E n \in Nodes :
          /\ <<d, name, n>> \in cached /\ e # n /\ ~IsPrefix(PathOf(n), PathOf(e))
          /\ Named(d, name) # <<>>
          /\ LET c == Head(Named(d, name)) IN
             /\ node' = [node EXCEPT ![c].ref = @ + 1]
             /\ req' = [req EXCEPT ![t] = [op |-> "rename", phase |-> "io", dir |-> d, dir2 |-> e,
                                           name |-> name, name2 |-> new, node |-> c,
                                           path |-> PathOf(c), path2 |-> PathOf(e), actual |-> new]]
    /\ \A u \in Threads : req[u].op # "rename"
    /\ UNCHANGED <<child, disk, look, cached, forgets>>
-----------------------------------------------------------------------------
(* The system calls on the storage, without the lock.                      *)
Below(p) == {q \in disk : IsPrefix(p, q) /\ p # q}
Exists(p) == p = <<>> \/ p \in disk

Io(t) ==
    LET r == req[t]
        name == Found(r.path2, r.name2, r.dir # r.dir2 \/ r.op # "rename" \/ Fold(r.name) # Fold(r.name2))
        file == Append(r.path2, name)
        go(p) == req' = [req EXCEPT ![t].phase = p, ![t].actual = name]
    IN
    /\ r.op # "idle" /\ r.phase = "io"
    /\ UNCHANGED <<node, child, look, cached, forgets, sent>>
    /\ \/ r.op = "lookup" /\ UNCHANGED disk /\ go(IF file \in disk THEN "done" ELSE "fail")
       \/ /\ r.op = "create"
          /\ IF Exists(r.path2) /\ file \in Paths \ disk
             THEN disk' = disk \cup {file} /\ go("done") ELSE UNCHANGED disk /\ go("fail")
       \/ /\ r.op = "remove"
          /\ IF file \in disk /\ Below(file) = {} THEN disk' = disk \ {file} /\ go("done")
             ELSE UNCHANGED disk /\ go("fail")
       \/ /\ r.op = "rename"
          /\ LET moved == {file \o SubSeq(q, Len(r.path) + 1, Len(q)) : q \in Below(r.path) \cup {r.path}} IN
             IF /\ r.path \in disk /\ Exists(r.path2) /\ (file # r.path => Below(file) = {})
                /\ moved \subseteq Paths
             THEN disk' = (disk \ (Below(r.path) \cup {r.path})) \cup moved /\ go("done")
             ELSE UNCHANGED disk /\ go("fail")
       \/ r.op = "access" /\ UNCHANGED disk /\ go("fail")
-----------------------------------------------------------------------------
(* The second locked part, and the reply.                                  *)
Fail(t) ==
    /\ req[t].op # "idle" /\ req[t].phase = "fail"
    /\ IF req[t].op = "rename" THEN SetTree(Release(Tree, req[t].node)) ELSE UNCHANGED <<node, child>>
    /\ req' = [req EXCEPT ![t] = Idle] /\ UNCHANGED <<disk, look, cached, forgets, sent>>

Known2(d, name, n) == {c \in cached : ~(c[1] = d /\ c[2] = name)} \cup (IF n = Root THEN {} ELSE {<<d, name, n>>})

(* fuse_reply_entry: the child with that name, or a new one.               *)
ReplyEntry(t) ==
    LET r == req[t] IN
    /\ r.op \in {"lookup", "create"} /\ r.phase = "done"
    /\ \E n \in Nodes :
          /\ IF Named(r.dir, r.name) # <<>>
             THEN n = Head(Named(r.dir, r.name)) /\ SetTree([Tree EXCEPT !.node[n].ref = @ + 1])
             ELSE /\ ~Live(n) /\ \A m \in Nodes : m < n => Live(m)
                  /\ SetTree(Attach([Tree EXCEPT !.node[n] = [ref |-> 1, parent |-> Root, name |-> r.name,
                                                              actual |-> r.actual]], n, r.dir))
          /\ look[n] < MaxLook /\ look' = [look EXCEPT ![n] = @ + 1]
          /\ cached' = Known2(r.dir, r.name, n)
    /\ req' = [req EXCEPT ![t] = Idle] /\ UNCHANGED <<disk, forgets, sent>>

(* Replies to unlink and rmdir: the kernel drops the name, the node stays. *)
ReplyRemove(t) ==
    /\ req[t].op = "remove" /\ req[t].phase = "done"
    /\ cached' = Known2(req[t].dir, req[t].name, Root)
    /\ req' = [req EXCEPT ![t] = Idle] /\ UNCHANGED <<node, child, disk, look, forgets, sent>>

(* Mutant: the node is put last, as a queue would. *)
ReplyRenameLast(t) ==
    LET r == req[t]
        s == Detach([Tree EXCEPT !.node[r.node].name = r.name2, !.node[r.node].actual = r.actual], r.node)
    IN
    /\ r.op = "rename" /\ r.phase = "done"
    /\ SetTree(Release([s EXCEPT !.node[r.node].parent = r.dir2, !.child[r.dir2] = @ \o <<r.node>>,
                                 !.node[r.dir2].ref = @ + 1], r.node))
    /\ cached' = {c \in Known2(r.dir2, r.name2, r.node) : ~(c[1] = r.dir /\ c[2] = r.name) \/ <<r.dir, r.name>> = <<r.dir2, r.name2>>}
    /\ req' = [req EXCEPT ![t] = Idle] /\ UNCHANGED <<disk, look, forgets, sent>>

(* The end of handle_rename: the new name, the new parent, and the         *)
(* reference taken at the start dropped.                                   *)
ReplyRename(t) ==
    LET r == req[t]
        s == Detach([Tree EXCEPT !.node[r.node].name = r.name2, !.node[r.node].actual = r.actual], r.node)
    IN
    /\ r.op = "rename" /\ r.phase = "done"
    /\ SetTree(Release(Attach(s, r.node, r.dir2), r.node))
    /\ cached' = {c \in Known2(r.dir2, r.name2, r.node) :
                    ~(c[1] = r.dir /\ c[2] = r.name) \/ <<r.dir, r.name>> = <<r.dir2, r.name2>>}
    /\ req' = [req EXCEPT ![t] = Idle] /\ UNCHANGED <<disk, look, forgets, sent>>
-----------------------------------------------------------------------------
(* External: the kernel drops a cached name nothing is below, and forgets  *)
(* a node it has no name for and no request on.                            *)
InUse(n) == \E t \in Threads : req[t].op # "idle" /\ n \in {req[t].dir, req[t].dir2, req[t].node}
Drop(c) ==
    /\ c \in cached /\ ~InUse(c[3]) /\ \A e \in cached : e[1] # c[3]
    /\ ~Held(c[1])
    /\ cached' = cached \ {c} /\ UNCHANGED <<node, child, disk, req, look, forgets, sent>>
SendForget(n) ==
    /\ look[n] > 0 /\ ~InUse(n) /\ \A c \in cached : n \notin {c[1], c[3]}
    /\ \A f \in forgets : f[1] # n
    /\ forgets' = forgets \cup {<<n, look[n]>>} /\ look' = [look EXCEPT ![n] = 0]
    /\ UNCHANGED <<node, child, disk, req, cached, sent>>

(* Mutant: one reference for one request. *)
ForgetOnce(f) ==
    /\ f \in forgets /\ forgets' = forgets \ {f} /\ SetTree(Release(Tree, f[1]))
    /\ UNCHANGED <<disk, req, look, cached, sent>>

(* handle_forget. *)
Forget(f) ==
    /\ f \in forgets /\ forgets' = forgets \ {f} /\ SetTree(ReleaseTimes(Tree, f[1], f[2]))
    /\ UNCHANGED <<disk, req, look, cached, sent>>

Next ==
    \/ \E t \in Threads : \/ Io(t) \/ Fail(t) \/ ReplyEntry(t) \/ ReplyRemove(t) \/ ReplyRename(t)
                          \/ \E n \in Nodes : BeginAccess(t, n)
                          \/ \E d \in All, name \in Names :
                                \/ \E op \in {"lookup", "create", "remove"} : Begin(t, op, d, name)
                                \/ \E e \in All, new \in Names : BeginRename(t, d, name, e, new)
    \/ \E c \in cached : Drop(c)
    \/ \E n \in Nodes : SendForget(n)
    \/ \E f \in forgets : Forget(f)

Spec == Init /\ [][Next]_vars
-----------------------------------------------------------------------------
(* A node's count is exactly the lookups the kernel holds or has queued to *)
(* forget, its children in the tree, and the renames that hold it: so no   *)
(* forget can run past zero and no node leaks.                             *)
Pending(n) == IF \E f \in forgets : f[1] = n THEN (CHOOSE f \in forgets : f[1] = n)[2] ELSE 0
RefExact ==
    \A n \in Nodes :
        node[n].ref = look[n] + Pending(n) + Len(child[n])
                      + Cardinality({t \in Threads : req[t].op = "rename" /\ req[t].node = n})

(* What the kernel and the handlers may still name is live, and so is      *)
(* every directory above it: no path is ever built from a freed node.      *)
NoDangling ==
    /\ \A n \in Nodes : Live(n) => Live(node[n].parent)
    /\ \A t \in Threads : req[t].op # "idle" =>
          \A n \in {req[t].dir, req[t].dir2, req[t].node} : Live(n)

(* A name the kernel has cached is the name the daemon has for that node,  *)
(* and no newer node shadows it, so that the next rename of it finds the   *)
(* node the kernel means (the end of a rename in progress excepted).       *)
CachedTrue ==
    \A c \in cached : ~Held(c[1]) => Named(c[1], c[2]) # <<>> /\ Head(Named(c[1], c[2])) = c[3]

(* "If non-null, this is the real name of the file in the underlying       *)
(* storage": right after a lookup or a create is answered, the node leads  *)
(* to the file it was answered for.                                        *)
ActualNameReal ==
    [][\A t \in Threads : req[t].op \in {"lookup", "create"} /\ req[t].phase = "done" /\ req'[t] = Idle =>
          \A c \in cached' \ cached : node'[c[3]].actual = req[t].actual]_vars

\* Under requests of two threads the node tree stays consistent: the counts are
\* exactly the references, no request or child holds a freed node, and what the
\* kernel has cached for a name is the node that has it.
TreeExact == RefExact /\ NoDangling /\ CachedTrue
=============================================================================
