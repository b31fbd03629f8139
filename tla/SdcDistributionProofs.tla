-------------------------- MODULE SdcDistributionProofs --------------------------
(***************************************************************************)
(* Proofs about SdcDistribution, for every set of services, VFs, handlers  *)
(* and polling jobs.                                                       *)
(***************************************************************************)
EXTENDS SdcDistribution, TLAPS

\* The parts of TypeOK: the tables, the workers, the notifications.
TablesOK ==
  /\ row \in [Kinds -> [Csars -> ServicePackageModel]]
  /\ dir \in [Csars -> BOOLEAN]
  /\ vf \subseteq Vfs
  /\ crowded \subseteq Csars

PlacesOK ==
  /\ pc \in [Workers -> Label]
  /\ on \in [Workers -> [kind : Kinds, csar : Csars \cup {None}]]
  /\ fresh \in [Workers -> SUBSET (Kinds \cup Vfs)]

MessagesOK ==
  /\ polling \in {"starting", "yes", "failed"}
  /\ todo \in [Jobs -> SUBSET Vfs]
  /\ ended \in [Jobs -> SUBSET (Vfs \X Ends)]
  /\ sent \in 0 .. Len(About)
  /\ topic \in Seq(Msgs)
  /\ batch \in [Jobs -> Seq(Msgs)]

\* Labels of a worker that is about a package.
Packaging == {"check", "fetch", "create", "process", "parse", "undo", "delete", "rmdir"}

\* A worker knows its package, and a job its notification.
WorkOK(w) ==
  /\ pc[w] \in Packaging <=> on[w].csar # None
  /\ w \in Handlers => pc[w] \in Packaging \cup {"idle"}
  /\ w \in Jobs => /\ pc[w] \notin {"idle", "next"} => batch[w] # <<>>
                   /\ pc[w] \in Packaging => on[w].kind = "ns"

TypeInv == TablesOK /\ PlacesOK /\ MessagesOK /\ \A w \in Workers : WorkOK(w)

\* A package that a worker relies on not having found was made since it looked.
UndoOK(w) == pc[w] \in Unsure /\ RowOf(w) # "absent" => on[w].kind \in fresh[w]

\* A VF has a row, or had one, or its thread left an end that the job will read.
Seen(v, j) == v \in vf \cup fresh[j] \/ \E e \in Ends : <<v, e>> \in ended[j]

\* A VF has a row, or had one, or its thread left an error that the job cannot read.
Heeded(v, j) == v \in vf \cup fresh[j] \/ <<v, "under way">> \in ended[j]

\* The VFs of a job's notification are seen, or have threads; those that the job has
\* read an error of, or could not read, are none when it turns to the NS.
VfsOK(j) ==
  /\ At(j, "threads") => \A v \in Resources[About[Head(batch[j])]] : v \in todo[j] \/ Seen(v, j)
  /\ At(j, "check") => \A v \in Resources[on[j].csar] : Heeded(v, j)

\* A csar that is not crowded has one worker at most, and packages of one kind; its
\* files go when its row has gone.
FilesOK(c) ==
  /\ \A w \in Workers, u \in Workers : on[w].csar = c /\ on[u].csar = c => w = u
  /\ \A k \in Kinds, k2 \in Kinds :
       row[k][c] # "absent" /\ row[k2][c] # "absent" => k = k2
  /\ \A w \in Workers : on[w].csar = c =>
       /\ \A k \in Kinds : row[k][c] # "absent" => k = on[w].kind
       /\ At(w, "rmdir") => RowOf(w) = "absent"
  /\ \A k \in Kinds : row[k][c] = "ONBOARDED" => dir[c]

IInv ==
  /\ TypeInv
  /\ \A w \in Workers : UndoOK(w)
  /\ \A j \in Jobs : VfsOK(j)
  /\ \A c \in Csars \ crowded : FilesOK(c)

LEMMA TypeParts == TypeOK <=> TablesOK /\ PlacesOK /\ MessagesOK
BY DEF TypeOK, TablesOK, PlacesOK, MessagesOK

LEMMA InitIInv == Init => IInv
<1> SUFFICES ASSUME Init PROVE IInv
  OBVIOUS
<1>1. TablesOK /\ PlacesOK
  BY DEF Init, TablesOK, PlacesOK, Nothing, Kinds, ServicePackageModel, Label
<1>2. MessagesOK
  BY SdcAssumption DEF Init, MessagesOK, Msgs
<1>3. \A w \in Workers : WorkOK(w) /\ UndoOK(w)
  BY DEF Init, WorkOK, UndoOK, Packaging, Unsure, Nothing
<1>4. \A j \in Jobs : VfsOK(j)
  BY DEF Init, VfsOK, At, Workers
<1>5. \A c \in Csars : FilesOK(c)
  BY SdcAssumption DEF Init, FilesOK, At, Nothing
<1>6. QED
  BY <1>1, <1>2, <1>3, <1>4, <1>5 DEF IInv, TypeInv

-----------------------------------------------------------------------------
(* What the parts of an action do *)

\* Worker w, and it alone, goes to label l about p.
Moves(w, l, p) ==
  /\ pc'[w] = l /\ on'[w] = p
  /\ \A u \in Workers \ {w} : pc'[u] = pc[u] /\ on'[u] = on[u]

LEMMA GotoMoves ==
  ASSUME PlacesOK, NEW w \in Workers, NEW l \in Label, Goto(w, l)
  PROVE  PlacesOK' /\ Moves(w, l, on[w]) /\ fresh' = fresh
BY DEF PlacesOK, Goto, Moves

LEMMA LeaveMoves ==
  ASSUME PlacesOK, NEW w \in Workers, NEW l \in Label, Leave(w), pc' = [pc EXCEPT ![w] = l]
  PROVE  /\ PlacesOK' /\ Moves(w, l, Nothing)
         /\ \A u \in Workers \ {w} : fresh'[u] = fresh[u]
<1>1. Nothing \in [kind : Kinds, csar : Csars \cup {None}]
  BY DEF Nothing, Kinds
<1>2. QED
  BY <1>1 DEF PlacesOK, Leave, Moves

LEMMA TailBatch ==
  ASSUME MessagesOK, NEW j \in Jobs, batch[j] # <<>>, batch' = [batch EXCEPT ![j] = Tail(@)]
  PROVE  /\ batch' \in [Jobs -> Seq(Msgs)]
         /\ \A i \in Jobs \ {j} : batch'[i] = batch[i]
<1>1. Tail(batch[j]) \in Seq(Msgs)
  BY DEF MessagesOK
<1>2. QED
  BY <1>1 DEF MessagesOK

LEMMA FinishMoves ==
  ASSUME PlacesOK, MessagesOK, NEW w \in Workers, WorkOK(w), pc[w] \in Packaging, Finish(w)
  PROVE  /\ PlacesOK' /\ MessagesOK'
         /\ Moves(w, IF w \in Jobs THEN "next" ELSE "idle", Nothing)
         /\ \A u \in Workers \ {w} : fresh'[u] = fresh[u]
         /\ \A i \in Jobs \ {w} : batch'[i] = batch[i] /\ ended'[i] = ended[i]
         /\ UNCHANGED <<topic, todo>>
<1> DEFINE l == IF w \in Jobs THEN "next" ELSE "idle"
<1>1. l \in Label
  BY DEF Label
<1>2. PlacesOK' /\ Moves(w, l, Nothing) /\ \A u \in Workers \ {w} : fresh'[u] = fresh[u]
  BY <1>1, LeaveMoves DEF Finish
<1>3. /\ batch' \in [Jobs -> Seq(Msgs)] /\ ended' \in [Jobs -> SUBSET (Vfs \X Ends)]
      /\ \A i \in Jobs \ {w} : batch'[i] = batch[i] /\ ended'[i] = ended[i]
  <2>1. CASE w \in Jobs
    BY <2>1, TailBatch DEF Finish, WorkOK, Packaging, MessagesOK
  <2>2. CASE w \notin Jobs
    BY <2>2 DEF Finish, MessagesOK
  <2>3. QED
    BY <2>1, <2>2
<1>4. MessagesOK' /\ UNCHANGED <<topic, todo>>
  BY <1>3 DEF Finish, MessagesOK
<1>5. QED
  BY <1>2, <1>3, <1>4

\* A job is done with one notification, or with all it has.
LEMMA JobMoves ==
  ASSUME PlacesOK, MessagesOK, NEW j \in Jobs,
         \/ Settle(j) /\ batch[j] # <<>>
         \/ DropBatch(j),
         UNCHANGED <<polling, topic, sent>>
  PROVE  /\ PlacesOK' /\ MessagesOK'
         /\ \E l \in {"next", "idle"} : Moves(j, l, Nothing)
         /\ \A u \in Workers \ {j} : fresh'[u] = fresh[u]
         /\ \A i \in Jobs \ {j} :
               batch'[i] = batch[i] /\ todo'[i] = todo[i] /\ ended'[i] = ended[i]
<1>1. PICK l \in {"next", "idle"} : pc' = [pc EXCEPT ![j] = l] /\ Leave(j)
  BY DEF Settle, DropBatch
<1>2. l \in Label /\ j \in Workers
  BY DEF Label, Workers
<1>3. PlacesOK' /\ Moves(j, l, Nothing) /\ \A u \in Workers \ {j} : fresh'[u] = fresh[u]
  BY <1>1, <1>2, LeaveMoves
<1>4. batch' \in [Jobs -> Seq(Msgs)] /\ \A i \in Jobs \ {j} : batch'[i] = batch[i]
  <2>1. CASE Settle(j) /\ batch[j] # <<>>
    BY <2>1, TailBatch DEF Settle
  <2>2. CASE DropBatch(j)
    <3>1. <<>> \in Seq(Msgs)
      OBVIOUS
    <3>2. QED
      BY <2>2, <3>1 DEF DropBatch, MessagesOK
  <2>3. QED
    BY <2>1, <2>2
<1>5. /\ todo' \in [Jobs -> SUBSET Vfs] /\ ended' \in [Jobs -> SUBSET (Vfs \X Ends)]
      /\ \A i \in Jobs \ {j} : todo'[i] = todo[i] /\ ended'[i] = ended[i]
  BY DEF Settle, DropBatch, MessagesOK
<1>6. MessagesOK'
  BY <1>4, <1>5 DEF MessagesOK
<1>7. QED
  BY <1>3, <1>4, <1>5, <1>6

LEMMA BeginMoves ==
  ASSUME PlacesOK, TablesOK, NEW w \in Workers, NEW k \in Kinds, NEW c \in Csars,
         NEW l \in Label, Begin(w, k, c, l)
  PROVE  /\ PlacesOK' /\ Moves(w, l, [kind |-> k, csar |-> c])
         /\ \A u \in Workers \ {w} : fresh'[u] = fresh[u]
         /\ fresh'[w] = fresh[w] \cap Vfs
         /\ crowded \subseteq crowded' /\ crowded' \subseteq crowded \cup {c}
         /\ c \notin crowded' => /\ \A u \in Workers \ {w} : on[u].csar # c
                                 /\ \A k2 \in Kinds \ {k} : row[k2][c] = "absent"
<1> DEFINE p == [kind |-> k, csar |-> c]
<1>1. p \in [kind : Kinds, csar : Csars \cup {None}]
  OBVIOUS
<1>2. on' = [on EXCEPT ![w] = p] /\ pc' = [pc EXCEPT ![w] = l]
  BY DEF Begin
<1> HIDE DEF p
<1>3. on' \in [Workers -> [kind : Kinds, csar : Csars \cup {None}]] /\ Moves(w, l, p)
  BY <1>1, <1>2 DEF PlacesOK, Moves
<1>4. /\ fresh' \in [Workers -> SUBSET (Kinds \cup Vfs)] /\ pc' \in [Workers -> Label]
      /\ fresh'[w] = fresh[w] \cap Vfs
      /\ \A u \in Workers \ {w} : fresh'[u] = fresh[u]
  BY DEF Begin, PlacesOK
<1>5. /\ crowded \subseteq crowded' /\ crowded' \subseteq crowded \cup {c}
      /\ c \notin crowded' => /\ \A u \in Workers \ {w} : on[u].csar # c
                              /\ \A k2 \in Kinds \ {k} : row[k2][c] = "absent"
  BY DEF Begin
<1>6. QED
  BY <1>3, <1>4, <1>5 DEF PlacesOK, p

\* A row is written.
Sets(k, c, s) ==
  \A k2 \in Kinds, c2 \in Csars :
    row'[k2][c2] = IF k2 = k /\ c2 = c THEN s ELSE row[k2][c2]

LEMMA SetRowSets ==
  ASSUME TablesOK, PlacesOK, NEW w \in Workers, on[w].csar # None,
         NEW s \in ServicePackageModel, SetRow(w, s)
  PROVE  /\ row' \in [Kinds -> [Csars -> ServicePackageModel]]
         /\ Sets(on[w].kind, on[w].csar, s)
<1> DEFINE k == on[w].kind
           c == on[w].csar
           r == [row[k] EXCEPT ![c] = s]
<1>1. k \in Kinds /\ c \in Csars
  BY DEF PlacesOK
<1>2. row[k] \in [Csars -> ServicePackageModel]
  BY <1>1 DEF TablesOK
<1> HIDE DEF k, c
<1>3. /\ r \in [Csars -> ServicePackageModel]
      /\ \A c2 \in Csars : r[c2] = IF c2 = c THEN s ELSE row[k][c2]
  BY <1>1, <1>2
<1>4. row' = [row EXCEPT ![k] = r]
  BY DEF SetRow, k, c
<1> HIDE DEF r
<1>5. row' \in [Kinds -> [Csars -> ServicePackageModel]]
  BY <1>1, <1>3, <1>4 DEF TablesOK
<1>6. Sets(k, c, s)
  BY <1>1, <1>3, <1>4 DEF Sets, TablesOK
<1>7. QED
  BY <1>5, <1>6 DEF k, c

-----------------------------------------------------------------------------
(* What a step leaves to the workers that stand still *)

\* Rows that a step makes are news to those who have looked for them, and so are the
\* VFs that it loses to the jobs that count on them.
Told ==
  /\ \A u \in Workers, k \in Kinds, c \in Csars :
       /\ row'[k][c] # "absent" /\ row[k][c] = "absent"
       /\ pc[u] \in Unsure /\ on[u].kind = k /\ on[u].csar = c
       => k \in fresh'[u]
  /\ \A j \in Jobs : pc[j] \in {"threads", "check"} => vf \ vf' \subseteq fresh'[j]

\* Worker u stands still.
Still(u) ==
  /\ pc'[u] = pc[u] /\ on'[u] = on[u] /\ fresh[u] \subseteq fresh'[u]
  /\ u \in Jobs => batch'[u] = batch[u] /\ todo'[u] = todo[u] /\ ended'[u] = ended[u]

LEMMA StillOK ==
  ASSUME IInv, TablesOK', Told, NEW u \in Workers, Still(u)
  PROVE  WorkOK(u)' /\ UndoOK(u)' /\ (u \in Jobs => VfsOK(u)')
<1>1. WorkOK(u) /\ UndoOK(u) /\ (u \in Jobs => VfsOK(u)) /\ PlacesOK
  BY DEF IInv, TypeInv
<1>2. WorkOK(u)'
  BY <1>1 DEF WorkOK, Still
<1>3. UndoOK(u)'
  <2>1. SUFFICES ASSUME pc[u] \in Unsure, RowOf(u)' # "absent"
                 PROVE  on[u].kind \in fresh'[u]
    BY DEF UndoOK, Still
  <2>2. on[u].kind \in Kinds /\ on[u].csar \in Csars
    BY <1>1, <2>1 DEF PlacesOK, WorkOK, Unsure, Packaging
  <2>3. row'[on[u].kind][on[u].csar] # "absent"
    BY <2>1 DEF RowOf, Still
  <2>4. CASE RowOf(u) = "absent"
    BY <2>1, <2>2, <2>3, <2>4 DEF Told, RowOf
  <2>5. CASE RowOf(u) # "absent"
    BY <1>1, <2>1, <2>5 DEF UndoOK, Still
  <2>6. QED
    BY <2>4, <2>5
<1>4. ASSUME u \in Jobs
      PROVE  VfsOK(u)'
  <2>1. pc[u] \in {"threads", "check"} => vf \subseteq vf' \cup fresh'[u]
    BY <1>4 DEF Told
  <2>2. batch'[u] = batch[u] /\ todo'[u] = todo[u] /\ ended'[u] = ended[u]
        /\ on'[u] = on[u] /\ pc'[u] = pc[u] /\ fresh[u] \subseteq fresh'[u]
    BY <1>4 DEF Still
  <2>3. ASSUME NEW v, Seen(v, u), pc[u] \in {"threads", "check"}
        PROVE  Seen(v, u)'
    BY <2>1, <2>2, <2>3 DEF Seen
  <2>4. CASE pc[u] = "threads"
    BY <1>1, <1>4, <2>2, <2>3, <2>4 DEF VfsOK, At
  <2>5. CASE pc[u] = "check"
    <3>1. ASSUME NEW v, Heeded(v, u)
          PROVE  Heeded(v, u)'
      BY <2>1, <2>2, <2>5, <3>1 DEF Heeded
    <3>2. QED
      BY <1>1, <1>4, <2>2, <2>5, <3>1 DEF VfsOK, At
  <2>6. QED
    BY <2>2, <2>4, <2>5 DEF VfsOK, At
<1>5. QED
  BY <1>2, <1>3, <1>4

\* A step of worker w, whose own part of the invariant holds after it.
LEMMA WorkerKeeps ==
  ASSUME IInv, NEW w \in Workers, TablesOK', PlacesOK', MessagesOK', Told,
         \A u \in Workers \ {w} : Still(u),
         WorkOK(w)', UndoOK(w)', w \in Jobs => VfsOK(w)',
         \A c \in Csars \ crowded' : FilesOK(c)'
  PROVE  IInv'
<1>1. \A u \in Workers : WorkOK(u)' /\ UndoOK(u)'
  BY StillOK
<1>2. \A j \in Jobs : VfsOK(j)'
  BY StillOK DEF Workers
<1>3. QED
  BY <1>1, <1>2 DEF IInv, TypeInv

\* A step of worker w on the files and the row of its csar, which it may leave.
LEMMA FilesKept ==
  ASSUME IInv, TablesOK', NEW w \in Workers, NEW l, NEW p \in {on[w], Nothing}, Moves(w, l, p),
         on[w].csar \in Csars, crowded' = crowded,
         \A k \in Kinds, c \in Csars :
           row'[k][c] = row[k][c] \/ (k = on[w].kind /\ c = on[w].csar),
         \A c \in Csars : dir'[c] = dir[c] \/ c = on[w].csar,
         on[w].csar \notin crowded =>
           /\ l = "rmdir" => row'[on[w].kind][on[w].csar] = "absent"
           /\ row'[on[w].kind][on[w].csar] = "ONBOARDED" => dir'[on[w].csar]
  PROVE  \A c \in Csars \ crowded' : FilesOK(c)'
<1> SUFFICES ASSUME NEW c \in Csars \ crowded
             PROVE  FilesOK(c)'
  OBVIOUS
<1>1. FilesOK(c) /\ PlacesOK /\ Nothing.csar = None /\ None \notin Csars
  BY SdcAssumption DEF IInv, TypeInv, Nothing
<1>2. \A u \in Workers : on'[u].csar = c => on'[u] = on[u] /\ on[u].csar = c
  BY <1>1 DEF Moves
<1>3. \A k \in Kinds : row'[k][c] # row[k][c] => k = on[w].kind /\ c = on[w].csar
  OBVIOUS
<1>4. \A u \in Workers, u2 \in Workers : on'[u].csar = c /\ on'[u2].csar = c => u = u2
  BY <1>1, <1>2 DEF FilesOK
<1>5. \A k \in Kinds : on[w].csar = c /\ row[k][c] # "absent" => k = on[w].kind
  BY <1>1 DEF FilesOK
<1>6. \A k \in Kinds, k2 \in Kinds :
        row'[k][c] # "absent" /\ row'[k2][c] # "absent" => k = k2
  BY <1>1, <1>3, <1>5 DEF FilesOK
<1>7. ASSUME NEW u \in Workers, on'[u].csar = c
      PROVE  /\ \A k \in Kinds : row'[k][c] # "absent" => k = on'[u].kind
             /\ At(u, "rmdir")' => RowOf(u)' = "absent"
  <2>1. on'[u] = on[u] /\ on[u].csar = c /\ on[u].kind \in Kinds
    BY <1>1, <1>2, <1>7 DEF PlacesOK
  <2>2. CASE u = w
    <3>1. pc'[w] = l
      BY DEF Moves
    <3>2. QED
      BY <1>3, <1>5, <2>1, <2>2, <3>1 DEF At, RowOf
  <2>3. CASE u # w
    <3>1. pc'[u] = pc[u] /\ on[w].csar # c
      BY <1>1, <2>1, <2>3 DEF Moves, FilesOK
    <3>2. QED
      BY <1>1, <1>3, <2>1, <3>1 DEF FilesOK, At, RowOf
  <2>4. QED
    BY <2>2, <2>3
<1>8. \A k \in Kinds : row'[k][c] = "ONBOARDED" => dir'[c]
  <2>1. CASE c = on[w].csar
    <3>1. ASSUME NEW k \in Kinds, k # on[w].kind
          PROVE  row'[k][c] = "absent"
      BY <1>3, <1>5, <2>1, <3>1
    <3>2. QED
      BY <2>1, <3>1
  <2>2. CASE c # on[w].csar
    BY <1>1, <1>3, <2>2 DEF FilesOK
  <2>3. QED
    BY <2>1, <2>2
<1>9. QED
  BY <1>4, <1>6, <1>7, <1>8 DEF FilesOK

-----------------------------------------------------------------------------
(* The steps of a worker on its package *)

\* What is known of a worker that is about a package.
LEMMA AboutPackage ==
  ASSUME IInv, NEW w \in Workers, pc[w] \in Packaging
  PROVE  /\ TablesOK /\ PlacesOK /\ MessagesOK /\ WorkOK(w) /\ UndoOK(w)
         /\ on[w].csar # None /\ on[w].csar \in Csars /\ on[w].kind \in Kinds
         /\ w \in Jobs => VfsOK(w) /\ batch[w] # <<>>
         /\ RowOf(w) \in ServicePackageModel
<1>1. /\ TablesOK /\ PlacesOK /\ MessagesOK /\ WorkOK(w) /\ UndoOK(w)
      /\ w \in Jobs => VfsOK(w)
  BY DEF IInv, TypeInv
<1>2. on[w].csar # None /\ on[w].csar \in Csars /\ on[w].kind \in Kinds
  BY <1>1 DEF WorkOK, PlacesOK
<1>3. w \in Jobs => batch[w] # <<>>
  BY <1>1 DEF WorkOK, Packaging
<1>4. RowOf(w) \in ServicePackageModel
  BY <1>1, <1>2 DEF RowOf, TablesOK
<1>5. QED
  BY <1>1, <1>2, <1>3, <1>4

\* A worker that goes from one label to another, or is done, on rows that are no news.
LEMMA PackageKeeps ==
  ASSUME IInv, NEW w \in Workers, pc[w] \in Packaging, TablesOK', vf' = vf, crowded' = crowded,
         NEW l \in Packaging \ {"check"},
         Move(w, l) \/ Finish(w),
         \A k \in Kinds, c \in Csars :
           row'[k][c] = row[k][c] \/ (k = on[w].kind /\ c = on[w].csar),
         \A c \in Csars : dir'[c] = dir[c] \/ c = on[w].csar,
         RowOf(w) = "absent" => row'[on[w].kind][on[w].csar] = "absent",
         on[w].csar \notin crowded =>
           /\ l = "rmdir" => row'[on[w].kind][on[w].csar] = "absent"
           /\ row'[on[w].kind][on[w].csar] = "ONBOARDED" => dir'[on[w].csar],
         l \in Unsure => RowOf(w) = "absent" \/ pc[w] \in Unsure
  PROVE  IInv'
<1>1. /\ TablesOK /\ PlacesOK /\ MessagesOK /\ WorkOK(w) /\ UndoOK(w)
      /\ on[w].csar # None /\ on[w].csar \in Csars /\ on[w].kind \in Kinds
      /\ w \in Jobs => VfsOK(w) /\ batch[w] # <<>>
  BY AboutPackage
<1>2. Told
  BY <1>1 DEF Told, RowOf, PlacesOK
<1>3. CASE Move(w, l)
  <2>1. /\ PlacesOK' /\ MessagesOK' /\ Moves(w, l, on[w]) /\ fresh' = fresh
        /\ UNCHANGED <<batch, todo, ended>>
    <3>1. l \in Label
      BY DEF Label, Packaging
    <3>2. PlacesOK' /\ Moves(w, l, on[w]) /\ fresh' = fresh
      BY <1>1, <1>3, <3>1, GotoMoves DEF Move
    <3>3. QED
      BY <1>1, <1>3, <3>2 DEF Move, msgVars, MessagesOK
  <2>2. \A u \in Workers \ {w} : Still(u)
    BY <2>1 DEF Still, Moves
  <2>3. WorkOK(w)'
    BY <1>1, <2>1 DEF WorkOK, Moves, Packaging
  <2>4. UndoOK(w)'
    BY <1>1, <2>1 DEF UndoOK, Moves, RowOf
  <2>5. w \in Jobs => VfsOK(w)'
    BY <1>1, <2>1 DEF VfsOK, Moves, At, Packaging
  <2>6. \A c \in Csars \ crowded' : FilesOK(c)'
    BY <1>1, <2>1, FilesKept
  <2>7. QED
    BY <1>2, <2>1, <2>2, <2>3, <2>4, <2>5, <2>6, WorkerKeeps
<1>4. CASE Finish(w)
  <2> DEFINE m == IF w \in Jobs THEN "next" ELSE "idle"
  <2>1. /\ PlacesOK' /\ MessagesOK' /\ Moves(w, m, Nothing)
        /\ \A u \in Workers \ {w} : fresh'[u] = fresh[u]
        /\ \A i \in Jobs \ {w} : batch'[i] = batch[i] /\ ended'[i] = ended[i]
        /\ UNCHANGED <<topic, todo>>
    BY <1>1, <1>4, FinishMoves
  <2>2. \A u \in Workers \ {w} : Still(u)
    BY <2>1 DEF Still, Moves
  <2>3. WorkOK(w)' /\ UndoOK(w)' /\ (w \in Jobs => VfsOK(w)')
    BY <2>1, SdcAssumption DEF WorkOK, UndoOK, VfsOK, Moves, At, Packaging, Unsure, Nothing
  <2>4. m # "rmdir"
    OBVIOUS
  <2> HIDE DEF m
  <2>5. \A c \in Csars \ crowded' : FilesOK(c)'
    BY <1>1, <2>1, <2>4, FilesKept
  <2>6. QED
    BY <1>2, <2>1, <2>2, <2>3, <2>5, WorkerKeeps
<1>5. QED
  BY <1>3, <1>4

\* The files of a package that is on-boarded, when nothing is written.
LEMMA FilesThere ==
  ASSUME IInv, NEW w \in Workers, pc[w] \in Packaging, on[w].csar \notin crowded
  PROVE  /\ RowOf(w) = "ONBOARDED" => dir[on[w].csar]
         /\ At(w, "rmdir") => RowOf(w) = "absent"
BY AboutPackage DEF IInv, FilesOK, RowOf

LEMMA CheckKeeps ==
  ASSUME IInv, NEW w \in Workers, NsCheck(w) \/ ServiceCheck(w)
  PROVE  IInv'
<1>1. pc[w] \in Packaging /\ UNCHANGED <<row, dir, vf, crowded>>
  BY DEF NsCheck, ServiceCheck, At, Packaging, pkgVars
<1>2. TablesOK' /\ RowOf(w) = row'[on[w].kind][on[w].csar]
  BY <1>1, AboutPackage DEF TablesOK, RowOf
<1>3. CASE RowOf(w) = "absent" /\ Move(w, "fetch")
  BY <1>1, <1>2, <1>3, FilesThere, PackageKeeps DEF Packaging
<1>4. CASE Finish(w)
  BY <1>1, <1>2, <1>4, FilesThere, PackageKeeps DEF Packaging, Unsure
<1>5. QED
  BY <1>3, <1>4 DEF NsCheck, ServiceCheck

LEMMA DownloadKeeps ==
  ASSUME IInv, NEW w \in Workers, DownloadArtifacts(w)
  PROVE  IInv'
<1> DEFINE c == on[w].csar
<1>1. /\ pc[w] \in Packaging /\ pc[w] \in Unsure /\ UNCHANGED <<row, vf, crowded>>
      /\ dir' = dir \/ dir' = [dir EXCEPT ![c] = TRUE]
  BY DEF DownloadArtifacts, At, Packaging, Unsure
<1>2. TablesOK /\ c \in Csars
  BY <1>1, AboutPackage
<1>3. /\ TablesOK' /\ RowOf(w) = row'[on[w].kind][c]
      /\ \A d \in Csars : dir'[d] = dir[d] \/ d = c
      /\ dir[c] => dir'[c]
  BY <1>1, <1>2 DEF TablesOK, RowOf
<1>4. Move(w, "create") \/ Move(w, "undo")
  BY DEF DownloadArtifacts
<1>5. ASSUME NEW l \in {"create", "undo"}, Move(w, l)
      PROVE  IInv'
  <2>1. l \in Packaging \ {"check"} /\ l # "rmdir"
    BY DEF Packaging
  <2>2. QED
    BY <1>1, <1>3, <1>5, <2>1, FilesThere, PackageKeeps
<1>6. QED
  BY <1>4, <1>5

\* The row of a worker's package is written, or is none.
LEMMA RowIsWritten ==
  ASSUME IInv, NEW w \in Workers, pc[w] \in Packaging, NEW s \in ServicePackageModel,
         SetRow(w, s), UNCHANGED <<dir, vf, crowded>>
  PROVE  /\ TablesOK'
         /\ \A k \in Kinds, c \in Csars :
              row'[k][c] = row[k][c] \/ (k = on[w].kind /\ c = on[w].csar)
         /\ row'[on[w].kind][on[w].csar] = s
<1>1. /\ TablesOK /\ PlacesOK /\ on[w].csar # None /\ on[w].csar \in Csars
      /\ on[w].kind \in Kinds
  BY AboutPackage
<1>2. /\ row' \in [Kinds -> [Csars -> ServicePackageModel]]
      /\ Sets(on[w].kind, on[w].csar, s)
  BY <1>1, SetRowSets
<1>3. QED
  BY <1>1, <1>2 DEF Sets, TablesOK

LEMMA ProcessKeeps ==
  ASSUME IInv, NEW w \in Workers, Process(w)
  PROVE  IInv'
<1>1. /\ pc[w] \in Packaging /\ pc[w] \in Unsure /\ UNCHANGED <<dir, vf, crowded>>
      /\ Move(w, "parse") /\ UpdateRow(w, "PROCESSING")
      /\ "parse" \in Packaging \ {"check"} /\ "PROCESSING" \in ServicePackageModel
  BY DEF Process, At, Packaging, Unsure, ServicePackageModel
<1>2. CASE RowOf(w) = "absent" /\ UNCHANGED row
  <2>1. TablesOK' /\ RowOf(w) = row'[on[w].kind][on[w].csar]
    BY <1>1, <1>2, AboutPackage DEF TablesOK, RowOf
  <2>2. QED
    BY <1>1, <1>2, <2>1, PackageKeeps
<1>3. CASE RowOf(w) # "absent" /\ SetRow(w, "PROCESSING")
  <2>1. /\ TablesOK'
        /\ \A k \in Kinds, c \in Csars :
             row'[k][c] = row[k][c] \/ (k = on[w].kind /\ c = on[w].csar)
        /\ row'[on[w].kind][on[w].csar] = "PROCESSING"
    BY <1>1, <1>3, RowIsWritten
  <2>2. QED
    BY <1>1, <1>3, <2>1, PackageKeeps
<1>4. QED
  BY <1>1, <1>2, <1>3 DEF UpdateRow

LEMMA ParseKeeps ==
  ASSUME IInv, NEW w \in Workers, ParseAndSave(w)
  PROVE  IInv'
<1>1. /\ pc[w] \in Packaging /\ pc[w] \in Unsure /\ UNCHANGED <<dir, vf, crowded>>
      /\ "undo" \in Packaging \ {"check"} /\ "ONBOARDED" \in ServicePackageModel
  BY DEF ParseAndSave, At, Packaging, Unsure, ServicePackageModel
<1>2. ASSUME UNCHANGED row
      PROVE  TablesOK' /\ RowOf(w) = row'[on[w].kind][on[w].csar]
  BY <1>1, <1>2, AboutPackage DEF TablesOK, RowOf
<1>3. CASE Move(w, "undo") /\ UNCHANGED row
  BY <1>1, <1>2, <1>3, FilesThere, PackageKeeps
<1>4. CASE dir[on[w].csar] /\ UpdateRow(w, "ONBOARDED") /\ Finish(w)
  <2>1. CASE RowOf(w) = "absent" /\ UNCHANGED row
    BY <1>1, <1>2, <1>4, <2>1, PackageKeeps
  <2>2. CASE RowOf(w) # "absent" /\ SetRow(w, "ONBOARDED")
    <3>1. /\ TablesOK'
          /\ \A k \in Kinds, c \in Csars :
               row'[k][c] = row[k][c] \/ (k = on[w].kind /\ c = on[w].csar)
          /\ row'[on[w].kind][on[w].csar] = "ONBOARDED"
      BY <1>1, <2>2, RowIsWritten
    <3>2. QED
      BY <1>1, <1>4, <2>2, <3>1, PackageKeeps
  <2>3. QED
    BY <1>4, <2>1, <2>2 DEF UpdateRow
<1>5. QED
  BY <1>3, <1>4 DEF ParseAndSave

LEMMA UndoKeeps ==
  ASSUME IInv, NEW w \in Workers, NsUndo(w) \/ ServiceUndo(w) \/ DeleteSingle(w)
  PROVE  IInv'
<1>1. /\ pc[w] \in Packaging /\ UNCHANGED <<dir, vf, crowded>>
      /\ "rmdir" \in Packaging \ {"check"} /\ "rmdir" \notin Unsure
      /\ "absent" \in ServicePackageModel
  BY DEF NsUndo, ServiceUndo, DeleteSingle, At, Packaging, Unsure, ServicePackageModel
<1>2. CASE UNCHANGED row /\ RowOf(w) = "absent" /\ Finish(w)
  <2>1. TablesOK' /\ RowOf(w) = row'[on[w].kind][on[w].csar]
    BY <1>1, <1>2, AboutPackage DEF TablesOK, RowOf
  <2>2. QED
    BY <1>1, <1>2, <2>1, PackageKeeps
<1>3. CASE SetRow(w, "absent") /\ Move(w, "rmdir")
  <2>1. /\ TablesOK'
        /\ \A k \in Kinds, c \in Csars :
             row'[k][c] = row[k][c] \/ (k = on[w].kind /\ c = on[w].csar)
        /\ row'[on[w].kind][on[w].csar] = "absent"
    BY <1>1, <1>3, RowIsWritten
  <2>2. QED
    BY <1>1, <1>3, <2>1, PackageKeeps
<1>4. QED
  BY <1>2, <1>3 DEF NsUndo, ServiceUndo, DeleteSingle

LEMMA DeleteDirsKeeps ==
  ASSUME IInv, NEW w \in Workers, DeleteDirs(w)
  PROVE  IInv'
<1> DEFINE c == on[w].csar
<1>1. /\ pc[w] \in Packaging /\ At(w, "rmdir") /\ UNCHANGED <<row, vf, crowded>>
      /\ dir' = [dir EXCEPT ![c] = FALSE] /\ Finish(w)
      /\ "rmdir" \in Packaging \ {"check"} /\ "rmdir" \notin Unsure
  BY DEF DeleteDirs, At, Packaging, Unsure
<1>2. TablesOK /\ c \in Csars
  BY <1>1, AboutPackage
<1>3. /\ TablesOK' /\ RowOf(w) = row'[on[w].kind][c]
      /\ \A d \in Csars : dir'[d] = dir[d] \/ d = c
  BY <1>1, <1>2 DEF TablesOK, RowOf
<1>4. QED
  BY <1>1, <1>3, FilesThere, PackageKeeps

LEMMA CreateKeeps ==
  ASSUME IInv, NEW w \in Workers, Create(w)
  PROVE  IInv'
<1>1. /\ pc[w] \in Packaging /\ pc[w] = "create" /\ UNCHANGED <<dir, vf, crowded>>
      /\ UNCHANGED <<polling, topic, batch, todo, ended, sent>>
  BY DEF Create, At, Packaging, msgVars
<1>2. /\ TablesOK /\ PlacesOK /\ MessagesOK /\ WorkOK(w) /\ UndoOK(w)
      /\ on[w].csar # None /\ on[w].csar \in Csars /\ on[w].kind \in Kinds
      /\ w \in Jobs => VfsOK(w) /\ batch[w] # <<>>
  BY <1>1, AboutPackage
<1>3. CASE RowOf(w) # "absent" /\ Goto(w, "undo") /\ UNCHANGED row
  <2>1. TablesOK' /\ RowOf(w) = row'[on[w].kind][on[w].csar] /\ Move(w, "undo")
    BY <1>1, <1>2, <1>3 DEF TablesOK, RowOf, Move, msgVars
  <2>2. QED
    BY <1>1, <1>3, <2>1, FilesThere, PackageKeeps DEF Packaging, Unsure
<1>4. CASE RowOf(w) = "absent" /\ SetRow(w, "CREATED")
  <2> DEFINE k == on[w].kind
             news == {u \in Workers : on[u] = on[w] /\ pc[u] \in Unsure}
  <2>1. /\ TablesOK'
        /\ \A k2 \in Kinds, c \in Csars : row'[k2][c] = row[k2][c] \/ (k2 = k /\ c = on[w].csar)
        /\ row'[k][on[w].csar] = "CREATED"
    BY <1>1, <1>4, RowIsWritten DEF ServicePackageModel
  <2>2. /\ pc' = [pc EXCEPT ![w] = "process"] /\ on' = on
        /\ fresh' = [u \in Workers |-> IF u \in news THEN fresh[u] \cup {k} ELSE fresh[u]]
    BY <1>4 DEF Create, News
  <2>3. w \in news
    BY <1>1 DEF Unsure
  <2>4. PlacesOK' /\ Moves(w, "process", on[w]) /\ k \in fresh'[w]
        /\ \A u \in Workers : fresh[u] \subseteq fresh'[u]
    BY <1>2, <2>2, <2>3 DEF PlacesOK, Moves, Label
  <2>5. Told
    <3>1. ASSUME NEW u \in Workers, on[u].kind = k, on[u].csar = on[w].csar, pc[u] \in Unsure
          PROVE  k \in fresh'[u]
      <4>1. on[u] = on[w]
        BY <1>2, <3>1 DEF PlacesOK
      <4>2. QED
        BY <2>2, <3>1, <4>1
    <3>2. QED
      BY <1>1, <2>1, <3>1 DEF Told
  <2> HIDE DEF news
  <2>6. \A u \in Workers \ {w} : Still(u)
    BY <1>1, <2>4 DEF Still, Moves
  <2>7. WorkOK(w)' /\ UndoOK(w)' /\ (w \in Jobs => VfsOK(w)')
    BY <1>1, <1>2, <2>4 DEF WorkOK, UndoOK, VfsOK, Moves, At, Packaging
  <2>8. \A c \in Csars \ crowded' : FilesOK(c)'
    BY <1>1, <1>2, <2>1, <2>4, FilesKept
  <2>9. QED
    BY <1>1, <1>2, <2>1, <2>4, <2>5, <2>6, <2>7, <2>8, WorkerKeeps DEF MessagesOK
<1>5. QED
  BY <1>3, <1>4 DEF Create

-----------------------------------------------------------------------------
(* Requests and crashes *)

LEMMA BeginKeeps ==
  ASSUME IInv, NEW w \in Workers, on[w].csar = None, NEW k \in Kinds, NEW c \in Csars,
         NEW l \in {"check", "delete"}, Begin(w, k, c, l),
         UNCHANGED <<row, dir, vf, polling, topic, batch, todo, ended, sent>>,
         w \in Jobs => /\ batch[w] # <<>> /\ k = "ns"
                       /\ l = "check" => \A v \in Resources[c] : Heeded(v, w)
  PROVE  IInv'
<1>1. TablesOK /\ PlacesOK /\ MessagesOK /\ l \in Label /\ l \in Packaging
  BY DEF IInv, TypeInv, Label, Packaging
<1>2. /\ PlacesOK' /\ Moves(w, l, [kind |-> k, csar |-> c])
      /\ \A u \in Workers \ {w} : fresh'[u] = fresh[u]
      /\ fresh'[w] = fresh[w] \cap Vfs
      /\ crowded \subseteq crowded' /\ crowded' \subseteq crowded \cup {c}
      /\ c \notin crowded' => /\ \A u \in Workers \ {w} : on[u].csar # c
                              /\ \A k2 \in Kinds \ {k} : row[k2][c] = "absent"
  BY <1>1, BeginMoves
<1>3. TablesOK' /\ MessagesOK' /\ \A u \in Workers \ {w} : Still(u)
  BY <1>1, <1>2 DEF TablesOK, MessagesOK, Still, Moves
<1>4. Told
  BY DEF Told
<1>5. on'[w].kind = k /\ on'[w].csar = c /\ pc'[w] = l
  BY <1>2 DEF Moves
<1>6. WorkOK(w)'
  BY <1>1, <1>5, SdcAssumption DEF WorkOK
<1>7. UndoOK(w)' /\ (w \in Jobs => VfsOK(w)')
  <2>1. \A v \in Resources[c] : Heeded(v, w) => Heeded(v, w)'
    BY <1>2, SdcAssumption DEF Heeded
  <2>2. UndoOK(w)'
    BY <1>5 DEF UndoOK, Unsure
  <2>3. w \in Jobs => VfsOK(w)'
    BY <1>5, <2>1 DEF VfsOK, At
  <2>4. QED
    BY <2>2, <2>3
<1>8. ASSUME NEW d \in Csars \ crowded'
      PROVE  FilesOK(d)'
  <2>1. FilesOK(d) /\ \A u \in Workers \ {w} : on'[u] = on[u] /\ pc'[u] = pc[u]
    BY <1>2 DEF IInv, Moves
  <2>2. CASE d # c
    BY <1>5, <2>1, <2>2 DEF FilesOK, At, RowOf
  <2>3. CASE d = c
    BY <1>2, <1>5, <2>1, <2>3 DEF FilesOK, At, RowOf
  <2>4. QED
    BY <2>2, <2>3
<1>9. QED
  BY <1>2, <1>3, <1>4, <1>6, <1>7, <1>8, WorkerKeeps

LEMMA RequestKeeps ==
  ASSUME IInv, NEW w \in Handlers, NEW c \in Csars, Request(w, c)
  PROVE  IInv'
<1>1. PICK k \in Kinds, l \in {"check", "delete"} :
        At(w, "idle") /\ Begin(w, k, c, l) /\ UNCHANGED <<row, dir, vf, msgVars>>
  BY DEF Request, NsPackagesPost, NsDelete, ServicePackagesPost, ServiceDelete, Kinds
<1>2. w \in Workers /\ w \notin Jobs
  BY SdcAssumption DEF Workers
<1>3. on[w].csar = None
  BY <1>1, <1>2 DEF IInv, TypeInv, WorkOK, At, Packaging
<1>4. QED
  BY <1>1, <1>2, <1>3, BeginKeeps DEF msgVars

\* A worker that has nothing to do any more.
LEMMA StopKeeps ==
  ASSUME IInv, NEW w \in Workers, NEW l \in {"idle", "next"}, PlacesOK', MessagesOK',
         Moves(w, l, Nothing), \A u \in Workers \ {w} : fresh'[u] = fresh[u],
         \A i \in Jobs \ {w} : batch'[i] = batch[i] /\ todo'[i] = todo[i] /\ ended'[i] = ended[i],
         w \in Handlers => l = "idle",
         UNCHANGED pkgVars
  PROVE  IInv'
<1>1. TablesOK /\ TablesOK' /\ Told
  BY DEF IInv, TypeInv, TablesOK, pkgVars, Told
<1>2. \A u \in Workers \ {w} : Still(u)
  BY DEF Still, Moves
<1>3. WorkOK(w)' /\ UndoOK(w)' /\ (w \in Jobs => VfsOK(w)')
  BY DEF Moves, WorkOK, UndoOK, VfsOK, At, Packaging, Unsure, Nothing
<1>4. ASSUME NEW c \in Csars \ crowded
      PROVE  FilesOK(c)'
  <2>1. FilesOK(c) /\ \A u \in Workers :
          on'[u].csar = c => u # w /\ on'[u] = on[u] /\ pc'[u] = pc[u]
    BY SdcAssumption DEF IInv, Moves, Nothing
  <2>2. QED
    BY <2>1 DEF FilesOK, At, RowOf, pkgVars
<1>5. QED
  BY <1>1, <1>2, <1>3, <1>4, WorkerKeeps DEF pkgVars

LEMMA CrashKeeps ==
  ASSUME IInv, NEW w \in Workers, Crash(w)
  PROVE  IInv'
<1>1. PlacesOK /\ MessagesOK /\ UNCHANGED pkgVars /\ UNCHANGED <<polling, topic, sent>>
  BY DEF IInv, TypeInv, Crash
<1>2. CASE w \in Jobs
  <2>1. DropBatch(w) /\ w \notin Handlers
    BY <1>2, SdcAssumption DEF Crash
  <2>2. QED
    BY <1>1, <1>2, <2>1, JobMoves, StopKeeps
<1>3. CASE w \notin Jobs
  <2>1. /\ Leave(w) /\ pc' = [pc EXCEPT ![w] = "idle"] /\ "idle" \in Label
        /\ UNCHANGED <<batch, todo, ended>>
    BY <1>3 DEF Crash, Label
  <2>2. PlacesOK' /\ Moves(w, "idle", Nothing) /\ \A u \in Workers \ {w} : fresh'[u] = fresh[u]
    BY <1>1, <2>1, LeaveMoves
  <2>3. MessagesOK'
    BY <1>1, <2>1 DEF MessagesOK
  <2>4. QED
    BY <1>1, <2>1, <2>2, <2>3, StopKeeps
<1>4. QED
  BY <1>2, <1>3

-----------------------------------------------------------------------------
(* The steps of a polling job *)

\* A job that only moves.
LEMMA JobGoes ==
  ASSUME IInv, NEW j \in Jobs, pc[j] \notin Packaging,
         NEW l \in {"idle", "next", "asset"}, pc' = [pc EXCEPT ![j] = l],
         UNCHANGED <<pkgVars, on, fresh, todo, ended, sent, polling>>,
         topic' \in Seq(Msgs), batch' \in [Jobs -> Seq(Msgs)],
         \A i \in Jobs \ {j} : batch'[i] = batch[i],
         l = "asset" => batch'[j] # <<>>
  PROVE  IInv'
<1>1. /\ TablesOK /\ PlacesOK /\ MessagesOK /\ WorkOK(j) /\ j \in Workers /\ j \notin Handlers
      /\ l \in Label
  BY SdcAssumption DEF IInv, TypeInv, Workers, Label
<1>2. TablesOK' /\ PlacesOK' /\ MessagesOK' /\ Told
  BY <1>1 DEF TablesOK, PlacesOK, MessagesOK, pkgVars, Told
<1>3. \A u \in Workers : on'[u] = on[u] /\ (u # j => pc'[u] = pc[u]) /\ pc'[j] = l
  BY <1>1 DEF PlacesOK
<1>4. \A u \in Workers \ {j} : Still(u)
  BY <1>3 DEF Still
<1>5. WorkOK(j)' /\ UndoOK(j)' /\ VfsOK(j)'
  BY <1>1, <1>3 DEF WorkOK, UndoOK, VfsOK, At, Packaging, Unsure
<1>6. ASSUME NEW c \in Csars \ crowded
      PROVE  FilesOK(c)'
  <2>1. FilesOK(c)
    BY DEF IInv
  <2>2. QED
    BY <1>3, <2>1 DEF FilesOK, At, RowOf, pkgVars
<1>7. QED
  BY <1>1, <1>2, <1>4, <1>5, <1>6, WorkerKeeps DEF pkgVars

\* A job that is done with its notification, or drops all it has.
LEMMA JobStops ==
  ASSUME IInv, NEW j \in Jobs, (Settle(j) /\ batch[j] # <<>>) \/ DropBatch(j),
         UNCHANGED <<pkgVars, polling, topic, sent>>
  PROVE  IInv'
<1>1. PlacesOK /\ MessagesOK /\ j \in Workers /\ j \notin Handlers
  BY SdcAssumption DEF IInv, TypeInv, Workers
<1>2. QED
  BY <1>1, JobMoves, StopKeeps

LEMMA FetchKeeps ==
  ASSUME IInv, NEW j \in Jobs, FetchNotification(j)
  PROVE  IInv'
<1>1. /\ MessagesOK /\ PlacesOK /\ pc[j] = "idle" /\ pc[j] \notin Packaging /\ topic' = <<>>
      /\ UNCHANGED <<pkgVars, on, fresh, todo, ended, sent, polling>>
  BY DEF IInv, TypeInv, FetchNotification, At, Packaging
<1>2. topic' \in Seq(Msgs)
  BY <1>1
<1>3. CASE batch' = [batch EXCEPT ![j] = topic] /\ pc' = [pc EXCEPT ![j] = "next"]
  <2>1. batch' \in [Jobs -> Seq(Msgs)] /\ \A i \in Jobs \ {j} : batch'[i] = batch[i]
    BY <1>1, <1>3 DEF MessagesOK
  <2>2. QED
    BY <1>1, <1>2, <1>3, <2>1, JobGoes
<1>4. CASE UNCHANGED <<batch, pc>>
  <2>1. pc' = [pc EXCEPT ![j] = "idle"] /\ batch' \in [Jobs -> Seq(Msgs)]
    BY <1>1, <1>4 DEF PlacesOK, MessagesOK, Workers
  <2>2. QED
    BY <1>1, <1>2, <1>4, <2>1, JobGoes
<1>5. QED
  BY <1>3, <1>4 DEF FetchNotification

LEMMA BuildKeeps ==
  ASSUME IInv, NEW j \in Jobs, BuildCallbackNotification(j)
  PROVE  IInv'
<1>1. /\ MessagesOK /\ pc[j] \notin Packaging
      /\ UNCHANGED <<row, dir, vf, crowded, polling, topic, sent>>
  BY DEF IInv, TypeInv, BuildCallbackNotification, At, Packaging, pkgVars
<1>2. CASE (batch[j] # <<>> /\ Settle(j)) \/ DropBatch(j)
  BY <1>1, <1>2, JobStops DEF pkgVars
<1>3. ASSUME NEW l \in {"idle", "asset"}, Goto(j, l), UNCHANGED <<batch, todo, ended>>,
             l = "asset" => batch[j] # <<>>
      PROVE  IInv'
  <2>1. topic' \in Seq(Msgs) /\ batch' \in [Jobs -> Seq(Msgs)]
    BY <1>1, <1>3 DEF MessagesOK
  <2>2. QED
    BY <1>1, <1>3, <2>1, JobGoes DEF Goto, pkgVars
<1>4. QED
  BY <1>2, <1>3 DEF BuildCallbackNotification

LEMMA JoinKeeps ==
  ASSUME IInv, NEW j \in Jobs, Join(j)
  PROVE  IInv'
<1> DEFINE c == About[Head(batch[j])]
<1>1. /\ MessagesOK /\ PlacesOK /\ WorkOK(j) /\ VfsOK(j) /\ j \in Workers
      /\ At(j, "threads") /\ todo[j] = {}
      /\ UNCHANGED <<row, dir, vf, polling, topic, sent>>
  BY DEF IInv, TypeInv, Join, Workers
<1>2. batch[j] # <<>> /\ batch[j] \in Seq(Msgs) /\ on[j].csar = None
  BY <1>1 DEF WorkOK, At, MessagesOK, Packaging
<1>3. CASE (Settle(j) \/ DropBatch(j)) /\ UNCHANGED crowded
  BY <1>1, <1>2, <1>3, JobStops DEF pkgVars
<1>4. CASE /\ ~Reads(j, "error") /\ ~Reads(j, "unknown") /\ Begin(j, "ns", c, "check")
           /\ UNCHANGED <<batch, todo, ended>>
  <2>1. Head(batch[j]) \in DOMAIN About
    BY <1>2 DEF Msgs
  <2>2. c \in Csars /\ Resources[c] \subseteq Vfs
    BY <2>1, SdcAssumption
  <2>3. ASSUME NEW v \in Resources[c]
        PROVE  Heeded(v, j)
    <3>1. Seen(v, j) /\ v \in Vfs
      BY <1>1, <2>2 DEF VfsOK
    <3>2. <<v, "error">> \notin ended[j] /\ <<v, "unknown">> \notin ended[j]
      BY <1>4, <3>1 DEF Reads
    <3>3. QED
      BY <3>1, <3>2 DEF Seen, Ends, Heeded
  <2>4. "ns" \in Kinds
    BY DEF Kinds
  <2> HIDE DEF c
  <2>5. QED
    BY <1>1, <1>2, <1>4, <2>2, <2>3, <2>4, BeginKeeps
<1>5. QED
  BY <1>3, <1>4 DEF Join

\* A step in which no worker moves on, and the tables lose or gain VFs only.
LEMMA VfsKeep ==
  ASSUME IInv, UNCHANGED <<row, dir, crowded, polling, topic, batch, sent, pc, on>>,
         vf' \subseteq Vfs, fresh' \in [Workers -> SUBSET (Kinds \cup Vfs)],
         todo' \in [Jobs -> SUBSET Vfs], ended' \in [Jobs -> SUBSET (Vfs \X Ends)],
         \A u \in Workers : fresh[u] \subseteq fresh'[u],
         \A j \in Jobs : pc[j] \in {"threads", "check"} => vf \subseteq vf' \cup fresh'[j],
         \A j \in Jobs : ended[j] \subseteq ended'[j],
         \A j \in Jobs : \A v \in todo[j] :
           v \in todo'[j] \cup vf' \/ \E e \in Ends : <<v, e>> \in ended'[j]
  PROVE  IInv'
<1>1. TablesOK' /\ PlacesOK' /\ MessagesOK'
  BY DEF IInv, TypeInv, TablesOK, PlacesOK, MessagesOK
<1>2. \A w \in Workers : WorkOK(w)' /\ UndoOK(w)'
  BY DEF IInv, TypeInv, WorkOK, UndoOK, RowOf
<1>3. ASSUME NEW j \in Jobs
      PROVE  VfsOK(j)'
  <2>1. VfsOK(j) /\ ended[j] \subseteq ended'[j] /\ fresh[j] \subseteq fresh'[j]
    BY DEF IInv, Workers
  <2>2. pc[j] \in {"threads", "check"} => vf \subseteq vf' \cup fresh'[j]
    OBVIOUS
  <2>3. ASSUME NEW v, Seen(v, j), pc[j] \in {"threads", "check"}
        PROVE  Seen(v, j)'
    BY <2>1, <2>2, <2>3 DEF Seen
  <2>4. CASE pc[j] = "threads"
    <3>1. \A v \in Resources[About[Head(batch[j])]] : v \in todo[j] \/ Seen(v, j)
      BY <2>1, <2>4 DEF VfsOK, At
    <3>2. \A v \in todo[j] : v \in todo'[j] \/ Seen(v, j)'
      BY DEF Seen
    <3>3. QED
      BY <2>3, <2>4, <3>1, <3>2 DEF VfsOK, At
  <2>5. CASE pc[j] = "check"
    <3>1. ASSUME NEW v, Heeded(v, j)
          PROVE  Heeded(v, j)'
      BY <2>1, <2>2, <2>5, <3>1 DEF Heeded
    <3>2. QED
      BY <2>1, <2>5, <3>1 DEF VfsOK, At
  <2>6. QED
    BY <2>4, <2>5 DEF VfsOK, At
<1>4. \A c \in Csars \ crowded' : FilesOK(c)'
  BY DEF IInv, FilesOK, At, RowOf
<1>5. QED
  BY <1>1, <1>2, <1>3, <1>4 DEF IInv, TypeInv

\* What LoseVf tells.
LEMMA LoseVfTells ==
  ASSUME PlacesOK, TablesOK, NEW v \in Vfs, LoseVf(v)
  PROVE  /\ vf' \subseteq Vfs /\ fresh' \in [Workers -> SUBSET (Kinds \cup Vfs)]
         /\ \A u \in Workers : fresh[u] \subseteq fresh'[u]
         /\ \A j \in Jobs : pc[j] \in {"threads", "check"} => vf \subseteq vf' \cup fresh'[j]
         /\ vf \subseteq vf' \cup {v}
BY DEF PlacesOK, TablesOK, LoseVf, News, Workers

LEMMA VfChangesKeeps ==
  ASSUME IInv, NEW v \in Vfs, VfChanges(v)
  PROVE  IInv'
<1>1. /\ TablesOK /\ PlacesOK /\ MessagesOK
      /\ UNCHANGED <<row, dir, crowded, polling, topic, batch, todo, ended, sent, pc, on>>
  BY DEF IInv, TypeInv, VfChanges, msgVars
<1>2. CASE vf' = vf \cup {v} /\ fresh' = fresh
  BY <1>1, <1>2, VfsKeep DEF TablesOK, PlacesOK, MessagesOK
<1>3. CASE LoseVf(v)
  BY <1>1, <1>3, LoseVfTells, VfsKeep DEF MessagesOK
<1>4. QED
  BY <1>2, <1>3 DEF VfChanges

LEMMA NfDistributeKeeps ==
  ASSUME IInv, NEW j \in Jobs, NEW v \in Vfs, NfDistribute(j, v)
  PROVE  IInv'
<1>1. /\ TablesOK /\ PlacesOK /\ MessagesOK
      /\ UNCHANGED <<row, dir, crowded, polling, topic, batch, sent, pc, on>>
  BY DEF IInv, TypeInv, NfDistribute
<1>2. /\ todo' \in [Jobs -> SUBSET Vfs] /\ todo'[j] = todo[j] \ {v}
      /\ \A i \in Jobs \ {j} : todo'[i] = todo[i]
  BY <1>1 DEF NfDistribute, MessagesOK
<1>3. CASE vf' = vf \cup {v} /\ ended' = ended /\ fresh' = fresh
  BY <1>1, <1>2, <1>3, VfsKeep DEF TablesOK, PlacesOK, MessagesOK
<1>4. CASE \E e \in Ends : ended' = [ended EXCEPT ![j] = @ \cup {<<v, e>>}]
  <2>1. PICK e \in Ends : ended' = [ended EXCEPT ![j] = @ \cup {<<v, e>>}]
    BY <1>4
  <2>2. /\ ended' \in [Jobs -> SUBSET (Vfs \X Ends)] /\ <<v, e>> \in ended'[j]
        /\ \A i \in Jobs : ended[i] \subseteq ended'[i]
    BY <1>1, <2>1 DEF MessagesOK
  <2>3. CASE LoseVf(v)
    BY <1>1, <1>2, <2>2, <2>3, LoseVfTells, VfsKeep
  <2>4. CASE UNCHANGED <<vf, fresh>>
    BY <1>1, <1>2, <2>2, <2>4, VfsKeep DEF TablesOK, PlacesOK
  <2>5. CASE vf' = vf \cup {v} /\ fresh' = fresh
    BY <1>1, <1>2, <2>2, <2>5, VfsKeep DEF TablesOK, PlacesOK
  <2>6. QED
    BY <2>3, <2>4, <2>5 DEF NfDistribute
<1>5. QED
  BY <1>3, <1>4 DEF NfDistribute

\* The job starts a thread for each VF that has no row.
LEMMA ProcessNotificationKeeps ==
  ASSUME IInv, NEW j \in Jobs, ProcessNotification(j)
  PROVE  IInv'
<1> DEFINE c == About[Head(batch[j])]
<1>1. /\ TablesOK /\ PlacesOK /\ MessagesOK /\ WorkOK(j) /\ j \in Workers /\ j \notin Handlers
      /\ pc[j] = "asset" /\ UNCHANGED <<row, dir, vf, crowded, polling, topic, sent>>
  BY SdcAssumption DEF IInv, TypeInv, ProcessNotification, Workers, At, pkgVars
<1>2. batch[j] # <<>> /\ batch[j] \in Seq(Msgs) /\ on[j].csar = None
  BY <1>1 DEF WorkOK, MessagesOK, Packaging
<1>3. CASE Settle(j) \/ DropBatch(j)
  BY <1>1, <1>2, <1>3, JobStops DEF pkgVars
<1>4. CASE /\ todo' = [todo EXCEPT ![j] = Resources[c] \ vf]
           /\ Goto(j, "threads") /\ UNCHANGED <<batch, ended>>
  <2>1. Head(batch[j]) \in DOMAIN About
    BY <1>2 DEF Msgs
  <2>2. Resources[c] \subseteq Vfs
    BY <2>1, SdcAssumption
  <2> HIDE DEF c
  <2>3. /\ todo' \in [Jobs -> SUBSET Vfs] /\ todo'[j] = Resources[c] \ vf
        /\ \A i \in Jobs \ {j} : todo'[i] = todo[i]
    BY <1>1, <1>4, <2>2 DEF MessagesOK
  <2>4. PlacesOK' /\ Moves(j, "threads", on[j]) /\ fresh' = fresh
    BY <1>1, <1>4, GotoMoves DEF Label
  <2>5. TablesOK' /\ MessagesOK' /\ Told
    BY <1>1, <1>4, <2>3 DEF TablesOK, MessagesOK, Told
  <2>6. \A u \in Workers \ {j} : Still(u)
    BY <1>4, <2>3, <2>4 DEF Still, Moves
  <2>7. WorkOK(j)' /\ UndoOK(j)'
    BY <1>1, <1>2, <1>4, <2>4 DEF WorkOK, UndoOK, Moves, Packaging, Unsure
  <2>8. Resources[c] \subseteq todo'[j] \cup vf'
    BY <1>1, <2>3
  <2>9. VfsOK(j)'
    BY <1>4, <2>4, <2>8 DEF VfsOK, Seen, Moves, At, c
  <2>10. ASSUME NEW d \in Csars \ crowded
         PROVE  FilesOK(d)'
    <3>1. FilesOK(d) /\ on' = on /\ \A u \in Workers : pc'[u] = "rmdir" => pc[u] = "rmdir"
      BY <1>4, <2>4 DEF IInv, Moves, Goto
    <3>2. QED
      BY <1>1, <3>1 DEF FilesOK, At, RowOf
  <2>11. QED
    BY <1>1, <2>4, <2>5, <2>6, <2>7, <2>9, <2>10, WorkerKeeps
<1>5. QED
  BY <1>3, <1>4 DEF ProcessNotification

LEMMA OutsideKeeps ==
  ASSUME IInv, RunController \/ Publish \/ UNCHANGED vars
  PROVE  IInv'
<1>1. MessagesOK /\ UNCHANGED <<row, dir, vf, crowded, pc, on, fresh, todo, ended, batch>>
  BY DEF IInv, TypeInv, RunController, Publish, vars, pkgVars, msgVars
<1>2. MessagesOK'
  <2>1. CASE RunController
    BY <1>1, <2>1 DEF RunController, MessagesOK
  <2>2. CASE UNCHANGED vars
    BY <1>1, <2>2 DEF vars, msgVars, MessagesOK
  <2>3. CASE Publish
    <3>1. sent < Len(About) /\ sent' = sent + 1 /\ topic' = Append(topic, sent + 1)
          /\ polling' = polling
      BY <2>3 DEF Publish
    <3>2. Len(About) \in Nat /\ DOMAIN About = 1 .. Len(About)
      BY SdcAssumption
    <3>3. sent + 1 \in Msgs /\ sent' \in 0 .. Len(About)
      BY <1>1, <3>1, <3>2 DEF MessagesOK, Msgs
    <3>4. topic' \in Seq(Msgs)
      BY <1>1, <3>1, <3>3 DEF MessagesOK
    <3>5. QED
      BY <1>1, <3>1, <3>3, <3>4 DEF MessagesOK
  <2>4. QED
    BY <2>1, <2>2, <2>3
<1>3. TablesOK' /\ PlacesOK'
  BY <1>1 DEF IInv, TypeInv, TablesOK, PlacesOK
<1>4. \A w \in Workers : WorkOK(w)' /\ UndoOK(w)'
  BY <1>1 DEF IInv, TypeInv, WorkOK, UndoOK, RowOf
<1>5. \A j \in Jobs : VfsOK(j)'
  BY <1>1 DEF IInv, VfsOK, Seen, Heeded, At
<1>6. \A c \in Csars \ crowded' : FilesOK(c)'
  BY <1>1 DEF IInv, FilesOK, At, RowOf
<1>7. QED
  BY <1>2, <1>3, <1>4, <1>5, <1>6 DEF IInv, TypeInv

-----------------------------------------------------------------------------
(* The invariant *)

LEMMA PackageStepKeeps ==
  ASSUME IInv, NEW w \in Workers, PackageStep(w)
  PROVE  IInv'
BY CheckKeeps, DownloadKeeps, CreateKeeps, ProcessKeeps, ParseKeeps, UndoKeeps, DeleteDirsKeeps
   DEF PackageStep

LEMMA NextIInv ==
  ASSUME IInv, [Next]_vars
  PROVE  IInv'
<1>1. ASSUME NEW w \in Handlers, (\E c \in Csars : Request(w, c)) \/ PackageStep(w)
      PROVE  IInv'
  BY <1>1, RequestKeeps, PackageStepKeeps DEF Workers
<1>2. ASSUME NEW j \in Jobs, JobStep(j)
      PROVE  IInv'
  <2>1. j \in Workers
    BY DEF Workers
  <2>2. QED
    BY <1>2, <2>1, PackageStepKeeps, BuildKeeps, ProcessNotificationKeeps, NfDistributeKeeps,
       JoinKeeps DEF JobStep
<1>3. QED
  BY <1>1, <1>2, FetchKeeps, VfChangesKeeps, CrashKeeps, OutsideKeeps DEF Next

THEOREM Inductive == Spec => []IInv
  BY InitIInv, NextIInv, PTL DEF Spec

\* The tables, the threads and the notifications keep their types.
THEOREM TypeCorrect == Spec => []TypeOK
<1>1. IInv => TypeOK
  BY TypeParts DEF IInv, TypeInv
<1>2. QED
  BY <1>1, Inductive, PTL

\* The except clause of ns_on_distribute and of on_distribute undoes no package that
\* was there when the distribution began.
THEOREM RollbacksSpareOthers == Spec => []RollbackSparesOthers
<1>1. IInv => RollbackSparesOthers
  BY DEF IInv, RollbackSparesOthers, UndoOK, At, Unsure
<1>2. QED
  BY <1>1, Inductive, PTL

\* NS and service packages keep their files, though they share directories, as long as
\* a csar is used as one kind and by one worker at a time.
THEOREM OnboardedHaveFiles == Spec => []OnboardedHasFiles
<1>1. IInv => OnboardedHasFiles
  BY DEF IInv, OnboardedHasFiles, FilesOK
<1>2. QED
  BY <1>1, Inductive, PTL

\* The controller waits for the VFs of a service before it turns to the NS
\* (process_notification).
THEOREM VfsComeFirst == Spec => []VfsBeforeNs
<1>1. IInv => VfsBeforeNs
  BY DEF IInv, VfsBeforeNs, VfsOK, Heeded
<1>2. QED
  BY <1>1, Inductive, PTL

=============================================================================
