------------------------------- MODULE Littlefs -----------------------------
(***************************************************************************)
(* The directory tree of littlefs (lib/littlefs/lfs2.c).  A directory is a *)
(* metadata pair; its parent names it in an entry, and all directories are *)
(* threaded on one list through their tails, the list by which littlefs    *)
(* finds the blocks in use, the parent or predecessor of a directory, and  *)
(* the pieces of the global state.  An operation that needs several        *)
(* commits announces in the global state, spread over the list as deltas,  *)
(* what is to be repaired if the power is lost between them.               *)
(*                                                                         *)
(* A commit to one pair is atomic (LfsPair).  It is appended, compacted    *)
(* into the other block, or relocated to a third one, which takes commits  *)
(* to the parent and to the predecessor, that may be relocated in turn.    *)
(* Files have a name and no data, directories fit in one pair, and the     *)
(* superblock, which is the root, is not expanded.                         *)
(***************************************************************************)
EXTENDS Integers, FiniteSets, Sequences, SequencesExt

CONSTANTS
  Blocks,      \* 0 .. block_count - 1; the root is the pair {0, 1}
  Names,       \* numbers, in the order of the names
  MaxDepth,    \* of the directories that operations are called on
  MaxOps, MaxCompactions, MaxRelocations,   \* bounds
  MaxTroubles, \* bound on losses of power and errors of a commit, together
  AnyFailure,  \* whether any commit may return one, else only where it is Harmless
  Wear,        \* the kinds of operations during which blocks wear out,
  LateWear,    \* and whether they still do after a loss of power or an error
  MixedRepairs \* whether power may be lost where two repairs get mixed up (Mixed)

VARIABLES
  disk,        \* for each block the directory in it
  shown,       \* the tree that a reader finds on the disk
  gstate,      \* the global state, as it is to be
  gdisk,       \* the global state on disk
  gdelta,      \* deltas of dropped directories
  given,       \* blocks allocated since lfs2_alloc_ack
  pc,          \* the next step of the operation, when no relocation is going on
  op,          \* the operation
  cwd,         \* the mdir that it commits to next
  dir,         \* another of its mdirs, the one hooked into lfs2->mlist if any
  frames,      \* the calls of lfs2_fs_relocate, the innermost last
  goal,        \* the tree that the operation is to leave
  spent        \* how often what is bounded has happened so far

ram == <<gstate, gdisk, gdelta, given>>
vars == <<disk, shown, ram, pc, op, cwd, dir, frames, goal, spent>>

Null == <<>>
Root == <<0, 1>>
Blank == [ok |-> FALSE, rev |-> 0, ents |-> <<>>, tail |-> Null, delta |-> {}]

\* lfs2_pair_cmp = 0: the pairs have a block in common; a relocation keeps one.
SameBlock(p, q) == p # Null /\ q # Null /\ {p[1], p[2]} \cap {q[1], q[2]} # {}

\* lfs2_pair_sync
Sync(p, q) == {p[1], p[2]} = {q[1], q[2]}

\* lfs2_dir_fetch: what LfsPair calls Fetched.
Fetch(d, p) ==
  LET newer == IF d[p[2]].ok /\ (~d[p[1]].ok \/ d[p[2]].rev > d[p[1]].rev) THEN 2 ELSE 1
  IN [pair |-> <<p[newer], p[3 - newer]>>, c |-> d[p[newer]]]

\* The list of all directories.
RECURSIVE Walk(_, _, _)
Walk(d, p, n) ==
  IF p = Null \/ n = 0 THEN <<>>
  ELSE LET m == Fetch(d, p) IN <<m>> \o Walk(d, m.c.tail, n - 1)

Thread(d) == Walk(d, Root, Cardinality(Blocks) \div 2)
-----------------------------------------------------------------------------
(* The global state: whether there may be orphans, and an entry that has   *)
(* been moved elsewhere and is to be deleted.  On disk it is the exclusive *)
(* or of the deltas of all directories.                                    *)
Orphans == <<Null, 0>>

Xor(s, t) == (s \ t) \cup (t \ s)

\* What of the global state is written: the number of orphans is not.
OnDisk(g) == g.move \cup IF g.orphans > 0 THEN {Orphans} ELSE {}

\* lfs2_mount
Mounted(d) ==
  LET s == FoldLeft(LAMBDA g, m : Xor(g, m.c.delta), {}, Thread(d))
  IN [orphans |-> IF Orphans \in s THEN 1 ELSE 0, move |-> s \ {Orphans}]

\* lfs2_gstate_hasmovehere
MoveHere(g, p) == \E x \in g.move : SameBlock(x[1], p)
MoveId(g) == (CHOOSE x \in g.move : TRUE)[2]

\* The entries of a directory without one that has been moved elsewhere.
Entries(g, m) ==
  IF MoveHere(g, m.pair) /\ MoveId(g) \in DOMAIN m.c.ents
  THEN RemoveAt(m.c.ents, MoveId(g)) ELSE m.c.ents

\* The tree that a reader finds.
RECURSIVE Subtree(_, _, _, _)
Subtree(d, g, path, p) ==
  UNION {{[path |-> Append(path, e.name), dir |-> e.pair # Null]} \cup
         IF e.pair = Null \/ Len(path) > MaxDepth + 1 THEN {}
         ELSE Subtree(d, g, Append(path, e.name), e.pair) : e \in ToSet(Entries(g, Fetch(d, p)))}

Tree(d) == UNION {Subtree(d, g, <<>>, Root) : g \in {Mounted(d)}}

\* lfs2_dir_find: the directory with a path, and where a name is or would be.
RECURSIVE Find(_, _)
Find(m, path) ==
  IF path = <<>> THEN m
  ELSE LET e == CHOOSE x \in ToSet(m.c.ents) : x.name = Head(path)
       IN Find(Fetch(disk, e.pair), Tail(path))

Dir(path) == Find(Fetch(disk, Root), path)
IdOf(m, n) == 1 + Cardinality({i \in DOMAIN m.c.ents : m.c.ents[i].name < n})

\* lfs2_fs_pred: the directory whose tail is p, if any.
Preds(p) ==
  LET hits(t) == {i \in DOMAIN t : SameBlock(t[i].c.tail, p)}
  IN {t[Min(hits(t))] : t \in {x \in {Thread(disk)} : hits(x) # {}}}

\* lfs2_fs_parent: the directory that has an entry for p, and the id of the
\* entry; a pending move shifts the ids behind it.
Parents(p) ==
  LET moved(m) == IF MoveHere(gdisk, m.pair) THEN MoveId(gdisk) ELSE 0
      ids(m) == {j \in DOMAIN m.c.ents : SameBlock(m.c.ents[j].pair, p) /\ j # moved(m)}
      id(m) == Max(ids(m)) - (IF moved(m) \in 1 .. Max(ids(m)) THEN 1 ELSE 0)
      hits(t) == {i \in DOMAIN t : ids(t[i]) # {}}
  IN {[m |-> t[Min(hits(t))], id |-> id(t[Min(hits(t))])] :
        t \in {x \in {Thread(disk)} : hits(x) # {}}}
-----------------------------------------------------------------------------
\* lfs2_fs_traverseraw: the blocks on the list and those that entries name.
Traversed ==
  UNION {ToSet(m.pair) \cup UNION {ToSet(e.pair) : e \in ToSet(m.c.ents)} :
           m \in ToSet(Thread(disk))}

\* Mutant: blocks allocated before in the same operation are not remembered.
Unused_Again(taken) == Blocks \ Traversed

\* A block that is not in use nor was given away before.
Unused(taken) == Blocks \ (Traversed \cup taken)

\* lfs2_alloc.  Blocks never written are alike, the first stands for all.
Free(taken) ==
  UNION {LET blank == {b \in f : disk[b] = Blank}
         IN (f \ blank) \cup (IF blank = {} THEN {} ELSE {Min(blank)}) : f \in {Unused(taken)}}

NoMdir == [pair |-> Null, c |-> Blank]

NoOp == [kind |-> "none", path |-> <<>>, name |-> 0, to |-> <<>>, toname |-> 0, from |-> NoMdir]

\* The passes over lfs2->mlist: a hooked mdir follows a directory that is
\* relocated, and is replaced once the commit is complete.
Follow(m, old, new) == IF SameBlock(m.pair, old) THEN [m EXCEPT !.pair = new] ELSE m

Refresh(m, old, new) == IF SameBlock(m.pair, old) THEN new ELSE m

\* Mutant: the global state is stored with a directory that is relocated.
Carried_Global(gs, dl) == Xor(dl, Xor(OnDisk(gs), OnDisk(gdisk)))

\* What is carried along with a directory that is relocated: nothing reads it
\* before the commit to the parent, which stores the change of global state.
Carried(gs, dl) == dl

(* lfs2_dir_commit of a change to m, with gs and dl the global state and   *)
(* the deltas to store; fr are the relocations going on.  It is the        *)
(* operation's own commit, or one of a relocation.                         *)
Stored(m, ents, tail, delta) ==
  [m.c EXCEPT !.ents = ents, !.tail = tail, !.delta = Xor(@, delta)]

Global(gs, dl) == Xor(dl, Xor(OnDisk(gs), OnDisk(gdisk)))

Write(new, gs, own) ==
  /\ disk' = [disk EXCEPT ![new.pair[1]] = new.c]
  /\ shown' = Tree(disk')
  /\ cwd' = IF own THEN new ELSE cwd
  /\ gstate' = gs
  /\ gdelta' = {}

AppendTo(m, ents, tail, gs, dl, fr, own) ==
  LET new == [pair |-> m.pair, c |-> Stored(m, ents, tail, Global(gs, dl))]
  IN /\ Write(new, gs, own)
     /\ dir' = Refresh(dir, m.pair, new)
     /\ gdisk' = gs
     /\ frames' = fr
     /\ UNCHANGED <<given, spent>>

Compact(m, ents, tail, gs, dl, fr, own) ==
  LET new == [pair |-> <<m.pair[2], m.pair[1]>>,
              c |-> [Stored(m, ents, tail, Global(gs, dl)) EXCEPT !.rev = @ + 1]]
  IN /\ Write(new, gs, own)
     /\ dir' = Refresh(dir, m.pair, new)
     /\ gdisk' = gs
     /\ frames' = fr
     /\ spent' = [spent EXCEPT !.compactions = @ + 1]
     /\ UNCHANGED given

Relocate(m, ents, tail, gs, dl, fr, own) ==
  /\ spent.relocations < MaxRelocations
  /\ op.kind \in Wear
  /\ spent.troubles = 0 \/ LateWear
  /\ ~SameBlock(m.pair, Root)
  /\ \E b \in IF Free(given) = {} THEN {m.pair[2]} ELSE Free(given) :
       LET new == [pair |-> <<b, m.pair[1]>>,
                   c |-> [Stored(m, ents, tail, Carried(gs, dl)) EXCEPT !.rev = @ + 1]]
       IN /\ Write(new, gs, own)
          /\ dir' = Follow(dir, m.pair, new.pair)
          /\ frames' = Append(fr, [old |-> m.pair, new |-> new, at |-> "parent"])
          /\ given' = given \cup {b}
  /\ spent' = [spent EXCEPT !.relocations = @ + 1]
  /\ UNCHANGED gdisk

\* What an error leaves behind in RAM is true of the disk: no move is announced,
\* no delta taken over, no orphan forgotten, and no change of the global state
\* is in a directory that is not on the list.
Harmless(gs, dl) ==
  /\ OnDisk(gdisk) = OnDisk(Mounted(disk))
  /\ gs.move \subseteq gdisk.move
  /\ gs.orphans >= gstate.orphans
  /\ dl = gdelta

\* The device returns an error.  The pair is what it was, and what the caller has
\* prepared stays in RAM; the error is passed on by all callers.
Failed == [old |-> Null, new |-> NoMdir, at |-> "failed"]

Fails(gs, dl) ==
  /\ spent.troubles < MaxTroubles
  /\ AnyFailure \/ Harmless(gs, dl)
  /\ gstate' = gs
  /\ gdelta' = dl
  /\ frames' = <<Failed>>
  /\ spent' = [spent EXCEPT !.troubles = @ + 1]
  /\ UNCHANGED <<disk, shown, gdisk, given, cwd, dir>>

Commit(m, ents, tail, gs, dl, fr, own) ==
  \/ Fails(gs, dl)
  \/ AppendTo(m, ents, tail, gs, dl, fr, own)
  \/ spent.compactions < MaxCompactions /\ Compact(m, ents, tail, gs, dl, fr, own)
  \/ Relocate(m, ents, tail, gs, dl, fr, own)

\* lfs2_fs_preporphans, lfs2_fs_prepmove
PrepOrphans(g, n) == [g EXCEPT !.orphans = @ + n]
PrepMove(g, m) == [g EXCEPT !.move = m]
-----------------------------------------------------------------------------
(* lfs2_fs_relocate                                                        *)
Top == frames[Len(frames)]
TopAt(label) == [frames EXCEPT ![Len(frames)].at = label]

\* A move that is pending in a directory is completed by the next commit to it.
Completed(ents, m) ==
  IF MoveHere(gstate, m.pair) THEN RemoveAt(ents, MoveId(gstate)) ELSE ents
Settled(g, m) == IF MoveHere(gstate, m.pair) THEN PrepMove(g, {}) ELSE g

RelocateParent ==
  /\ frames # <<>>
  /\ Top.at = "parent"
  /\ \E h \in Parents(Top.old) :
       LET behind == MoveHere(gstate, h.m.pair) /\ MoveId(gstate) < h.id
           id == IF behind THEN h.id - 1 ELSE h.id
           ents == Completed(h.m.c.ents, h.m)
       IN Commit(h.m, [ents EXCEPT ![id].pair = Top.new.pair], h.m.c.tail,
                 Settled(PrepOrphans(gstate, 1), h.m), gdelta, TopAt("desynced"), FALSE)
  /\ UNCHANGED <<pc, op, goal>>

RelocateNoParent ==
  /\ frames # <<>>
  /\ Top.at = "parent"
  /\ Parents(Top.old) = {}
  /\ frames' = TopAt("pred")
  /\ UNCHANGED <<disk, shown, ram, pc, op, cwd, dir, goal, spent>>

Resynced == IF Top.at = "desynced" THEN PrepOrphans(gstate, -1) ELSE gstate

RelocatePred ==
  /\ frames # <<>>
  /\ Top.at \in {"desynced", "pred"}
  /\ \E m \in Preds(Top.old) :
       Commit(m, Completed(m.c.ents, m), Top.new.pair, Settled(Resynced, m), gdelta,
              TopAt("done"), FALSE)
  /\ UNCHANGED <<pc, op, goal>>

RelocateNoPred ==
  /\ frames # <<>>
  /\ Top.at \in {"desynced", "pred"}
  /\ Preds(Top.old) = {}
  /\ gstate' = Resynced
  /\ frames' = TopAt("done")
  /\ UNCHANGED <<disk, shown, gdisk, gdelta, given, pc, op, cwd, dir, goal, spent>>

Relocated ==
  /\ frames # <<>>
  /\ Top.at = "done"
  /\ dir' = Refresh(dir, Top.old, Top.new)
  /\ frames' = Front(frames)
  /\ UNCHANGED <<disk, shown, ram, pc, op, cwd, goal, spent>>
-----------------------------------------------------------------------------
At(label) == pc = label /\ frames = <<>>

\* lfs2_fs_forceconsistency, at the start of every operation that writes: a
\* pending move is completed, then the list is searched for orphans.
lfs2_fs_demove ==
  /\ At("demove")
  /\ LET move == CHOOSE x \in gdisk.move : TRUE
         m == Fetch(disk, move[1])
     IN Commit(m, RemoveAt(m.c.ents, move[2]), m.c.tail, PrepMove(gstate, {}), gdelta,
               frames, FALSE)
  /\ pc' = "deorphan"
  /\ UNCHANGED <<op, goal>>

\* The entry of its parent for the directory behind cwd.
Referred == {Entries(gdisk, h.m)[h.id].pair : h \in Parents(cwd.c.tail)}

Searching == At("deorphan") /\ gstate.orphans > 0 /\ cwd.c.tail # Null

DropOrphan ==
  /\ Searching
  /\ cwd.pair # Null
  /\ Referred = {}
  /\ LET d == Fetch(disk, cwd.c.tail)
     IN Commit(cwd, cwd.c.ents, d.c.tail, gstate, Xor(gdelta, d.c.delta), frames, TRUE)
  /\ UNCHANGED <<pc, op, goal>>

FixHalfOrphan ==
  /\ Searching
  /\ cwd.pair # Null
  /\ \E p \in Referred :
       /\ ~Sync(p, cwd.c.tail)
       /\ Commit(cwd, cwd.c.ents, p, gstate, gdelta, frames, TRUE)
  /\ UNCHANGED <<pc, op, goal>>

NoOrphan ==
  /\ Searching
  /\ cwd.pair = Null \/ \E p \in Referred : Sync(p, cwd.c.tail)
  /\ cwd' = Fetch(disk, cwd.c.tail)
  /\ UNCHANGED <<disk, shown, ram, pc, op, dir, frames, goal, spent>>

Deorphaned ==
  /\ At("deorphan")
  /\ gstate.orphans = 0 \/ cwd.c.tail = Null
  /\ gstate' = PrepOrphans(gstate, -gstate.orphans)
  /\ pc' = op.kind
  /\ UNCHANGED <<disk, shown, gdisk, gdelta, given, op, cwd, dir, frames, goal, spent>>
-----------------------------------------------------------------------------
\* lfs2_file_opencfg creates a file.
lfs2_file_open ==
  /\ At("create")
  /\ LET m == Dir(op.path)
     IN Commit(m, InsertAt(m.c.ents, IdOf(m, op.name), [name |-> op.name, pair |-> Null]),
               m.c.tail, gstate, gdelta, frames, TRUE)
  /\ pc' = "idle"
  /\ UNCHANGED <<op, goal>>

\* lfs2_mkdir: two blocks are allocated, of which the first keeps what it
\* holds and gives the revision count, the new directory is committed to the
\* second, and then the parent.
MkdirAlloc ==
  /\ At("mkdir")
  /\ dir' = Dir(op.path)
  /\ \E y \in Free({}) : \E x \in Free({y}) :
       /\ LET rev == disk[x].rev
          IN cwd' = [pair |-> <<x, y>>, c |-> [Blank EXCEPT !.ok = TRUE, !.rev = rev + (rev % 2)]]
       /\ given' = {x, y}
  /\ pc' = "newdir"
  /\ UNCHANGED <<disk, shown, gstate, gdisk, gdelta, op, frames, goal, spent>>

\* Mutant: the list is threaded on from the parent instead of behind it.
MkdirNew_Backwards ==
  /\ At("newdir")
  /\ Compact(cwd, <<>>, dir.pair, gstate, gdelta, frames, TRUE)
  /\ pc' = "insert"
  /\ UNCHANGED <<op, goal>>

MkdirNew ==
  /\ At("newdir")
  /\ \/ Fails(gstate, gdelta)
     \/ Compact(cwd, <<>>, dir.c.tail, gstate, gdelta, frames, TRUE)
     \/ Relocate(cwd, <<>>, dir.c.tail, gstate, gdelta, frames, TRUE)
  /\ pc' = "insert"
  /\ UNCHANGED <<op, goal>>

MkdirInsert ==
  /\ At("insert")
  /\ LET entry == [name |-> op.name, pair |-> cwd.pair]
     IN Commit(dir, InsertAt(dir.c.ents, IdOf(dir, op.name), entry), cwd.pair, gstate, gdelta,
               frames, TRUE)
  /\ pc' = "idle"
  /\ UNCHANGED <<op, goal>>

\* lfs2_remove: of a directory the entry is deleted first, which leaves an
\* orphan, then it is taken off the list.
RemoveStart ==
  /\ At("remove") \/ At("rmdir")
  /\ LET m == Dir(op.path)
         p == m.c.ents[IdOf(m, op.name)].pair
     IN /\ cwd' = m
        /\ dir' = IF p = Null THEN NoMdir ELSE Fetch(disk, p)
        /\ gstate' = IF p = Null THEN gstate ELSE PrepOrphans(gstate, 1)
  /\ pc' = "delete"
  /\ UNCHANGED <<disk, shown, gdisk, gdelta, given, op, frames, goal, spent>>

RemoveEntry ==
  /\ At("delete")
  /\ Commit(cwd, RemoveAt(cwd.c.ents, IdOf(cwd, op.name)), cwd.c.tail, gstate, gdelta,
            frames, TRUE)
  /\ pc' = IF dir = NoMdir THEN "idle" ELSE "drop"
  /\ UNCHANGED <<op, goal>>

\* Mutant: the delta of the directory is not taken over.
lfs2_dir_drop_Delta ==
  /\ At("drop")
  /\ \E m \in Preds(dir.pair) :
       Commit(m, m.c.ents, dir.c.tail, PrepOrphans(gstate, -1), gdelta, frames, TRUE)
  /\ pc' = "idle"
  /\ UNCHANGED <<op, goal>>

lfs2_dir_drop ==
  /\ At("drop")
  /\ \E m \in Preds(dir.pair) :
       Commit(m, m.c.ents, dir.c.tail, PrepOrphans(gstate, -1), Xor(gdelta, dir.c.delta),
              frames, TRUE)
  /\ pc' = "idle"
  /\ UNCHANGED <<op, goal>>

\* lfs2_rename: between two directories the entry is created in the new one
\* first, with the move in the global state, then it is deleted in the old one.
\* A directory that is replaced is dropped in the end.
SamePair == SameBlock(op.from.pair, cwd.pair)
OldId == IdOf(op.from, op.name)
NewId == IdOf(cwd, op.toname)
Replaces == NewId \in DOMAIN cwd.c.ents /\ cwd.c.ents[NewId].name = op.toname

RenameStart ==
  /\ At("rename") \/ At("movedir")
  /\ LET old == Dir(op.path)
         new == Dir(op.to)
         prev == {e \in ToSet(new.c.ents) : e.name = op.toname /\ e.pair # Null}
         g == IF prev = {} THEN gstate ELSE PrepOrphans(gstate, 1)
     IN /\ op' = [op EXCEPT !.from = old]
        /\ cwd' = new
        /\ dir' = IF prev = {} THEN NoMdir ELSE Fetch(disk, (CHOOSE e \in prev : TRUE).pair)
        /\ gstate' = IF SameBlock(old.pair, new.pair) THEN g
                     ELSE PrepMove(g, {<<old.pair, IdOf(old, op.name)>>})
  /\ pc' = "move"
  /\ UNCHANGED <<disk, shown, gdisk, gdelta, given, frames, goal, spent>>

RenameInsert ==
  /\ At("move")
  /\ LET entry == [op.from.c.ents[OldId] EXCEPT !.name = op.toname]
         with == IF Replaces THEN ReplaceAt(cwd.c.ents, NewId, entry)
                 ELSE InsertAt(cwd.c.ents, NewId, entry)
         newoldid == IF ~Replaces /\ NewId <= OldId THEN OldId + 1 ELSE OldId
     IN Commit(cwd, IF SamePair THEN RemoveAt(with, newoldid) ELSE with, cwd.c.tail, gstate,
               gdelta, frames, TRUE)
  /\ pc' = IF ~SamePair THEN "moved" ELSE IF dir = NoMdir THEN "idle" ELSE "drop"
  /\ UNCHANGED <<op, goal>>

RenameDelete ==
  /\ At("moved")
  /\ gstate.move # {}
  /\ Commit(op.from, RemoveAt(op.from.c.ents, OldId), op.from.c.tail, PrepMove(gstate, {}),
            gdelta, frames, FALSE)
  /\ pc' = IF dir = NoMdir THEN "idle" ELSE "drop"
  /\ UNCHANGED <<op, goal>>

\* A relocation has completed the move.
RenameDeleted ==
  /\ At("moved")
  /\ gstate.move = {}
  /\ pc' = IF dir = NoMdir THEN "idle" ELSE "drop"
  /\ UNCHANGED <<disk, shown, ram, op, cwd, dir, frames, goal, spent>>
-----------------------------------------------------------------------------
Node(path, isdir) == [path |-> path, dir |-> isdir]
Within(path, q) == Len(q) >= Len(path) /\ SubSeq(q, 1, Len(path)) = path

\* The operations, as changes of the tree.  Programs do not move a directory into
\* itself, which lfs2_rename does not refuse.
Op(kind, path, name, to, toname) ==
  [kind |-> kind, path |-> path, name |-> name, to |-> to, toname |-> toname, from |-> NoMdir]

\* lfs2_fs_forceconsistency comes first, if there is anything to do.
Repair(o) ==
  IF gdisk.move # {} THEN "demove" ELSE IF gstate.orphans > 0 THEN "deorphan" ELSE o.kind

Begin(o, tree) ==
  /\ spent' = [spent EXCEPT !.ops = @ + 1]
  /\ op' = o
  /\ goal' = tree
  /\ pc' = Repair(o)
  /\ cwd' = [pair |-> Null, c |-> [Blank EXCEPT !.tail = Root]]
  /\ dir' = NoMdir
  /\ UNCHANGED <<disk, shown, ram, frames>>

Call == At("idle") /\ spent.ops < MaxOps /\
  LET dirs == {<<>>} \cup {n.path : n \in {x \in shown : x.dir /\ Len(x.path) <= MaxDepth}}
      at(path) == {n \in shown : n.path = path}
      isdir(path) == Node(path, TRUE) \in shown
      empty(path) == \A n \in shown : ~(Within(path, n.path) /\ n.path # path)
  IN \E path \in dirs, name \in Names :
       LET target == Append(path, name)
       IN \/ /\ at(target) = {}
             /\ \/ Begin(Op("create", path, name, <<>>, name), shown \cup {Node(target, FALSE)})
                \/ Begin(Op("mkdir", path, name, <<>>, name), shown \cup {Node(target, TRUE)})
          \/ /\ at(target) # {}
             /\ empty(target)
             /\ Begin(Op(IF isdir(target) THEN "rmdir" ELSE "remove", path, name, <<>>, name),
                      shown \ at(target))
          \/ \E to \in dirs, toname \in Names :
               LET dest == Append(to, toname)
                   renamed(n) == IF Within(target, n.path)
                                 THEN [n EXCEPT !.path =
                                         dest \o SubSeq(@, Len(target) + 1, Len(@))]
                                 ELSE n
               IN /\ at(target) # {}
                  /\ dest # target
                  /\ ~Within(target, to)
                  /\ empty(dest)
                  /\ \A n \in at(target), x \in at(dest) : n.dir = x.dir
                  /\ Begin(Op(IF isdir(target) THEN "movedir" ELSE "rename",
                              path, name, to, toname),
                           {renamed(n) : n \in shown \ at(dest)})

\* The operation returns the error.
Returned ==
  /\ frames = <<Failed>>
  /\ frames' = <<>>
  /\ pc' = "idle"
  /\ op' = NoOp
  /\ cwd' = NoMdir
  /\ dir' = NoMdir
  /\ goal' = shown
  /\ UNCHANGED <<disk, shown, ram, spent>>

\* A directory is relocated by an operation that itself leaves an orphan or moves
\* a directory.
Mixed == frames \notin {<<>>, <<Failed>>} /\ op.kind \in {"rmdir", "movedir"}

\* The power is lost, or the file system is unmounted; then it is mounted.
Restart ==
  /\ spent.troubles < MaxTroubles
  /\ ~Mixed \/ MixedRepairs
  /\ spent' = [spent EXCEPT !.troubles = @ + 1]
  /\ gstate' = Mounted(disk)
  /\ gdisk' = Mounted(disk)
  /\ gdelta' = {}
  /\ given' = {}
  /\ pc' = "idle"
  /\ op' = NoOp
  /\ cwd' = NoMdir
  /\ dir' = NoMdir
  /\ frames' = <<>>
  /\ goal' = shown
  /\ UNCHANGED <<disk, shown>>

\* lfs2_format commits the root twice, the second time into the other block.
Formatted ==
  [b \in Blocks |-> IF b \in {0, 1} THEN [Blank EXCEPT !.ok = TRUE, !.rev = b + 1] ELSE Blank]

\* The same after mkdir of 1 and then of 2, which comes first on the list.
TwoDirs ==
  [Formatted EXCEPT
     ![1] = [@ EXCEPT !.ents = <<[name |-> 1, pair |-> <<2, 3>>], [name |-> 2, pair |-> <<4, 5>>]>>,
                      !.tail = <<4, 5>>],
     ![4] = [@ EXCEPT !.ok = TRUE, !.rev = 1, !.tail = <<2, 3>>],
     ![2] = [@ EXCEPT !.ok = TRUE, !.rev = 1]]

Init ==
  /\ disk \in {Formatted, TwoDirs}
  /\ gstate = Mounted(disk)
  /\ gdisk = Mounted(disk)
  /\ gdelta = {}
  /\ given = {}
  /\ pc = "idle"
  /\ op = NoOp
  /\ cwd = NoMdir
  /\ dir = NoMdir
  /\ frames = <<>>
  /\ shown = Tree(disk)
  /\ goal = shown
  /\ spent = [ops |-> 0, compactions |-> 0, relocations |-> 0, troubles |-> 0]

lfs2_fs_relocate ==
  RelocateParent \/ RelocateNoParent \/ RelocatePred \/ RelocateNoPred \/ Relocated

lfs2_fs_forceconsistency ==
  lfs2_fs_demove \/ DropOrphan \/ FixHalfOrphan \/ NoOrphan \/ Deorphaned

Run ==
  \/ lfs2_file_open
  \/ MkdirAlloc \/ MkdirNew \/ MkdirInsert
  \/ RemoveStart \/ RemoveEntry \/ lfs2_dir_drop
  \/ RenameStart \/ RenameInsert \/ RenameDelete \/ RenameDeleted

Next == Call \/ lfs2_fs_forceconsistency \/ Run \/ lfs2_fs_relocate \/ Returned \/ Restart

Spec == Init /\ [][Next]_vars
-----------------------------------------------------------------------------
\* The directories of the tree, by following the entries from the root.
RECURSIVE Below(_, _, _)
Below(g, p, n) ==
  {p} \cup IF n = 0 THEN {}
           ELSE UNION {Below(g, e.pair, n - 1) :
                  e \in {x \in ToSet(Entries(g, Fetch(disk, p))) : x.pair # Null}}
Directories == UNION {Below(g, Root, MaxDepth + 2) : g \in {Mounted(disk)}}

\* No two directories share a block.  Once the orphans that were announced have
\* been repaired, none has a block that the allocator may give out.
Repaired == gstate.orphans = 0 \/ pc \notin {"idle", "demove", "deorphan"}
Disjoint ==
  \E ds \in {Directories} :
    /\ \A p, q \in ds : Sync(p, q) \/ ~SameBlock(p, q)
    /\ Repaired => UNION {ToSet(p) : p \in ds} \cap Unused(given) = {}

\* The list of directories comes to an end: the repair of orphans follows it
\* without a test for a loop.
ListEnds == Last(Thread(disk)).c.tail = Null

\* Whenever the list is not made up of the directories of the tree, each under
\* the pair its parent knows, the disk says that there may be orphans, so that
\* the next operation repairs it.
Flagged ==
  \E t \in {{{m.pair[1], m.pair[2]} : m \in ToSet(Thread(disk))}},
     ds \in {{{p[1], p[2]} : p \in Directories}} : t = ds \/ Mounted(disk).orphans > 0

\* A directory is only written from an mdir that agrees with the disk.
Committed ==
  CASE pc \in {"delete", "move"} -> {cwd}
    [] pc = "insert" -> {dir}
    [] pc = "deorphan" /\ gstate.orphans > 0 /\ cwd.pair # Null -> {cwd}
    [] pc = "moved" /\ gstate.move # {} -> {op.from}
    [] OTHER -> {}
FreshMdir ==
  frames = <<>> =>
    /\ \A m \in Committed : /\ Fetch(disk, m.pair) = m
                            /\ \E p \in Directories : Sync(p, m.pair)
    /\ pc = "drop" => /\ Preds(dir.pair) # {}
                      /\ Fetch(disk, dir.pair) = dir

\* Every operation on the tree is atomic and durable.
Trees == SUBSET [path : UNION {[1 .. k -> Names] : k \in 1 .. MaxDepth + 2}, dir : BOOLEAN]
Store == INSTANCE AtomicStore WITH value <- shown, Values <- Trees
Atomic == Store!Spec
=============================================================================
