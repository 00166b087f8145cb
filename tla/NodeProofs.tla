----------------------------- MODULE NodeProofs -----------------------------
(***************************************************************************)
(* Proofs about DirCache, for any number of threads, slots and             *)
(* descriptors, about InoMap, for any set of devices and inode numbers and *)
(* any split of the number space, and about IdleMonitor, for any -idle     *)
(* duration. DirInv says who holds which descriptor, IInv where every      *)
(* number came from, and MonitorOK relates what the monitor has counted to *)
(* the time that was quiet.                                                *)
(***************************************************************************)
EXTENDS NodeParts, IdlePart, Integers, TLAPS

----------------------------------------------------------------------------
(* DirCache                                                                *)

Slots == [node : DirInos \union {None}, fd : 0 .. MaxFd, iv : D!Dirs \union {None},
          name : DirNames \union {None}, sure : BOOLEAN]
DirTypeOK ==
    /\ gen \in [DirInos -> 0 .. MaxGen] /\ at \in [DirNames -> D!Dirs \union {None}]
    /\ tree \in [DirInos -> DirNames \union {None}] /\ moved \in SUBSET DirInos
    /\ fds \in [1 .. MaxFd -> D!Dirs \union {None}]
    /\ entries \in [1 .. dirCacheSize -> Slots] /\ nextIndex \in 1 .. dirCacheSize
    /\ dirPc \in [Threads -> {"idle", "parent", "open", "readIV", "store", "use"}]
    /\ loc \in [Threads -> Slots]

\* The descriptor of a cache entry or of an operation is open, on the directory its
\* Node stands for now, unless a change of name has overtaken the request that opened it.
Opened(s) ==
    /\ s.fd \in 1 .. MaxFd /\ s.node \in DirInos /\ fds[s.fd] # None
    /\ s.sure => fds[s.fd] = D!DirOf(s.node)
EntryOK(k) == entries[k].fd > 0 => Opened(entries[k]) /\ entries[k].iv = fds[entries[k].fd]
OperationOK(t) ==
    /\ dirPc[t] \in {"idle", "parent", "open"} => loc[t].fd = 0
    /\ dirPc[t] \in {"parent", "open"} => loc[t].node \in DirInos
    /\ dirPc[t] = "open" => /\ loc[t].name \in DirNames
                            /\ loc[t].sure => at[loc[t].name] = D!DirOf(loc[t].node)
    /\ dirPc[t] \in {"readIV", "store", "use"} => Opened(loc[t])
    /\ dirPc[t] \in {"store", "use"} => loc[t].iv = fds[loc[t].fd]

\* The names go-fuse has are right, but for those of a request that is under way.
TreeOK ==
    \A i \in DirInos \ moved : tree[i] # None => at[tree[i]] = D!DirOf(i)

\* Nobody shares a descriptor, and somebody has each one that is open.
OneOwner ==
    /\ \A k, l \in 1 .. dirCacheSize : entries[k].fd > 0 /\ entries[k].fd = entries[l].fd => k = l
    /\ \A t, u \in Threads : loc[t].fd > 0 /\ loc[t].fd = loc[u].fd => t = u
    /\ \A k \in 1 .. dirCacheSize, t \in Threads : entries[k].fd > 0 => entries[k].fd # loc[t].fd
NoOrphan ==
    \A f \in 1 .. MaxFd : fds[f] # None =>
        (\E k \in 1 .. dirCacheSize : entries[k].fd = f) \/ (\E t \in Threads : loc[t].fd = f)

DirInv ==
    /\ D!DirCacheAssumption /\ DirTypeOK /\ TreeOK
    /\ \A k \in 1 .. dirCacheSize : EntryOK(k)
    /\ \A t \in Threads : OperationOK(t)
    /\ OneOwner /\ NoOrphan

LEMMA DirConstants ==
    D!DirCacheAssumption =>
        /\ dirCacheSize \in Nat \ {0} /\ MaxFd \in Nat \ {0} /\ MaxGen \in Nat \ {0}
        /\ None \notin DirInos /\ None \notin DirNames
BY DEF D!DirCacheAssumption

LEMMA DirTuples ==
    D!DirCacheAssumption => None \notin D!Dirs /\ \A i \in DirInos, g \in Nat : << i, g >> # None
<1> SUFFICES ASSUME D!DirCacheAssumption
             PROVE  None \notin D!Dirs /\ \A i \in DirInos, g \in Nat : << i, g >> # None
  OBVIOUS
<1>1. None \notin DirInos \X Nat BY DEF D!DirCacheAssumption
<1>2. D!Dirs \subseteq DirInos \X Nat BY DirConstants DEF D!Dirs
<1> QED BY <1>1, <1>2

LEMMA DirInitOK == D!DirCacheAssumption /\ D!Init => DirInv
<1> SUFFICES ASSUME D!DirCacheAssumption, D!Init PROVE DirInv OBVIOUS
<1>1. D!Empty \in Slots /\ D!Empty.fd = 0 BY DirConstants DEF D!Empty, Slots
<1>2. DirTypeOK BY <1>1, DirConstants DEF D!Init, DirTypeOK
<1>3. TreeOK BY DEF D!Init, TreeOK
<1> QED BY <1>1, <1>2, <1>3 DEF D!Init, DirInv, EntryOK, OperationOK, OneOwner, NoOrphan

\* What is open belongs to somebody, so a free descriptor belongs to nobody.
LEMMA DirIsADir ==
    ASSUME DirInv, NEW i \in DirInos PROVE D!DirOf(i) # None /\ gen[i] \in Nat
BY DirTuples DEF DirInv, DirTypeOK, D!DirOf

LEMMA FreeIsUnowned ==
    ASSUME DirInv, NEW f \in 1 .. MaxFd, fds[f] = None
    PROVE  /\ \A k \in 1 .. dirCacheSize : entries[k].fd # f
           /\ \A t \in Threads : loc[t].fd # f
<1>1. ASSUME NEW k \in 1 .. dirCacheSize PROVE entries[k].fd # f
  BY DEF DirInv, EntryOK, Opened
<1>2. ASSUME NEW t \in Threads PROVE loc[t].fd # f
  <2>1. OperationOK(t) /\ dirPc[t] \in {"idle", "parent", "open", "readIV", "store", "use"}
    BY DEF DirInv, DirTypeOK
  <2> QED BY <2>1 DEF OperationOK, Opened
<1> QED BY <1>1, <1>2

\* An operation changes descriptors that only it has, or nobody.
LEMMA OfOneOperation ==
    ASSUME DirInv, NEW t \in Threads, NEW label \in {"idle", "parent", "open", "readIV", "store", "use"},
           NEW l \in Slots, D!Step(t, label, l),
           UNCHANGED << gen, at, tree, moved, entries, nextIndex >>,
           fds' \in [1 .. MaxFd -> D!Dirs \union {None}],
           \A f \in 1 .. MaxFd : fds'[f] # fds[f] =>
               /\ \A k \in 1 .. dirCacheSize : entries[k].fd # f
               /\ \A u \in Threads \ {t} : loc[u].fd # f,
           l.fd > 0 => /\ \A k \in 1 .. dirCacheSize : entries[k].fd # l.fd
                       /\ \A u \in Threads \ {t} : loc[u].fd # l.fd,
           OperationOK(t)', NoOrphan'
    PROVE  DirInv'
<1>1. /\ dirPc'[t] = label /\ loc'[t] = l
      /\ \A u \in Threads \ {t} : dirPc'[u] = dirPc[u] /\ loc'[u] = loc[u]
  BY DEF D!Step, DirInv, DirTypeOK
<1>2. DirTypeOK' BY DEF D!Step, DirInv, DirTypeOK
<1>3. ASSUME NEW k \in 1 .. dirCacheSize PROVE EntryOK(k)'
  <2>1. EntryOK(k) BY DEF DirInv
  <2> QED BY <2>1 DEF EntryOK, Opened, D!DirOf
<1>4. ASSUME NEW u \in Threads \ {t} PROVE OperationOK(u)'
  <2>1. OperationOK(u) BY DEF DirInv
  <2> QED BY <1>1, <2>1 DEF OperationOK, Opened, D!DirOf
<1>5. OneOwner' BY <1>1 DEF DirInv, OneOwner
<1>6. TreeOK' BY DEF DirInv, TreeOK, D!DirOf
<1> QED BY <1>2, <1>3, <1>4, <1>5, <1>6 DEF DirInv, D!DirCacheAssumption

LEMMA FreeFd ==
    ASSUME DirInv, NEW f \in D!Lowest(D!FreeFds) PROVE f \in 1 .. MaxFd /\ fds[f] = None
BY DEF D!Lowest, D!FreeFds, DirInv, DirTypeOK

\* An inode number that is in use for an open directory is not given to a new one.
LEMMA MkdirOK ==
    ASSUME DirInv, NEW i \in DirInos, NEW n \in DirNames, D!Mkdir(i, n) PROVE DirInv'
<1>1. UNCHANGED << tree, fds, entries, nextIndex, dirPc, loc >> /\ moved = {} /\ moved' = {i}
  BY DEF D!Mkdir, D!cache
<1>2. /\ gen[i] < MaxGen /\ gen' = [gen EXCEPT ![i] = @ + 1]
      /\ at[n] = None /\ at' = [at EXCEPT ![n] = << i, gen[i] + 1 >>]
  BY DEF D!Mkdir
<1>3. gen' \in [DirInos -> 0 .. MaxGen] /\ << i, gen[i] + 1 >> \in D!Dirs
  BY <1>2, DirConstants DEF DirInv, DirTypeOK, D!Dirs
<1>4. \A j \in DirInos \ {i} : D!DirOf(j)' = D!DirOf(j) BY <1>2 DEF DirInv, DirTypeOK, D!DirOf
<1>5. \A m \in DirNames : at[m] # None => at'[m] = at[m] BY <1>2 DEF DirInv, DirTypeOK
<1>6. /\ \A f \in 1 .. MaxFd : fds[f] # D!DirOf(i)
      /\ \A m \in DirNames : at[m] # D!DirOf(i)
  BY Zenon DEF D!Mkdir, D!Linked, DirInv, DirTypeOK
<1>7. DirTypeOK'
  <2>1. at' \in [DirNames -> D!Dirs \union {None}] BY <1>2, <1>3 DEF DirInv, DirTypeOK
  <2> QED BY <1>1, <1>3, <2>1 DEF DirInv, DirTypeOK
<1>8. ASSUME NEW s, Opened(s), s.sure PROVE fds[s.fd] = << s.node, gen'[s.node] >>
  BY <1>4, <1>6, <1>8 DEF Opened, D!DirOf
<1>9. ASSUME NEW k \in 1 .. dirCacheSize PROVE EntryOK(k)'
  <2>1. EntryOK(k) BY DEF DirInv
  <2> QED BY <1>1, <1>8, <2>1 DEF EntryOK, Opened, D!DirOf
<1>10. ASSUME NEW t \in Threads PROVE OperationOK(t)'
  <2>1. OperationOK(t) BY DEF DirInv
  <2>2. Opened(loc[t]) => Opened(loc[t])' BY <1>1, <1>8 DEF Opened, D!DirOf
  <2>3. dirPc[t] = "open" /\ loc[t].sure => at'[loc[t].name] = D!DirOf(loc[t].node)'
    BY <1>1, <1>4, <1>5, <1>6, <2>1, DirIsADir DEF OperationOK
  <2> QED BY <1>1, <2>1, <2>2, <2>3 DEF OperationOK, Opened
<1>11. TreeOK'
  <2> SUFFICES ASSUME NEW j \in DirInos \ {i}, tree[j] # None PROVE at'[tree[j]] = D!DirOf(j)'
    BY <1>1 DEF TreeOK
  <2>1. at[tree[j]] = D!DirOf(j) /\ tree[j] \in DirNames BY <1>1 DEF DirInv, TreeOK, DirTypeOK
  <2> QED BY <1>4, <1>5, <2>1, DirIsADir
<1> QED BY <1>1, <1>7, <1>9, <1>10, <1>11 DEF DirInv, OneOwner, NoOrphan, D!DirCacheAssumption

\* What the change of a name can make wrong is no longer sure.
LEMMA RelinkOK ==
    ASSUME DirInv, NEW new \in [DirNames -> D!Dirs \union {None}], D!Relink(new) PROVE DirInv'
<1>1. UNCHANGED << gen, tree, fds, entries, nextIndex, dirPc >> /\ at' = new /\ moved = {}
  BY DEF D!Relink, D!cache
<1>2. moved' = {i \in DirInos : \E n \in DirNames : at[n] = D!DirOf(i) /\ new[n] # at[n]}
  BY DEF D!Relink
<1>3. ASSUME NEW t \in Threads
      PROVE  /\ loc'[t] \in Slots /\ loc'[t].fd = loc[t].fd /\ loc'[t].node = loc[t].node
             /\ loc'[t].iv = loc[t].iv /\ loc'[t].name = loc[t].name
             /\ loc'[t].sure => loc[t].sure
             /\ loc'[t].sure /\ dirPc[t] = "open" => new[loc[t].name] = at[loc[t].name]
  <2>1. loc[t] \in Slots BY DEF DirInv, DirTypeOK
  <2>2. CASE dirPc[t] = "open" /\ new[loc[t].name] # at[loc[t].name]
    <3>1. loc'[t] = [loc[t] EXCEPT !.sure = FALSE] BY <2>2 DEF D!Relink
    <3> QED BY <2>1, <3>1 DEF Slots
  <2>3. CASE ~(dirPc[t] = "open" /\ new[loc[t].name] # at[loc[t].name])
    <3>1. loc'[t] = loc[t] BY <2>3 DEF D!Relink
    <3> QED BY <2>1, <2>3, <3>1
  <2> QED BY <2>2, <2>3
<1>4. DirTypeOK'
  <2>1. loc' \in [Threads -> Slots]
    <3>1. loc' = [t \in Threads |-> loc'[t]] BY DEF D!Relink
    <3> QED BY <1>3, <3>1
  <2> QED BY <1>1, <1>2, <2>1 DEF DirInv, DirTypeOK
<1>5. ASSUME NEW k \in 1 .. dirCacheSize PROVE EntryOK(k)'
  <2>1. EntryOK(k) BY DEF DirInv
  <2> QED BY <1>1, <2>1 DEF EntryOK, Opened, D!DirOf
<1>6. ASSUME NEW t \in Threads PROVE OperationOK(t)'
  <2>1. OperationOK(t) BY DEF DirInv
  <2> QED BY <1>1, <1>3, <2>1 DEF OperationOK, Opened, D!DirOf
<1>7. TreeOK'
  <2> SUFFICES ASSUME NEW i \in DirInos \ moved', tree[i] # None PROVE new[tree[i]] = D!DirOf(i)
    BY <1>1 DEF TreeOK, D!DirOf
  <2>1. at[tree[i]] = D!DirOf(i) /\ tree[i] \in DirNames BY <1>1 DEF DirInv, TreeOK, DirTypeOK
  <2> QED BY <1>2, <2>1
<1>8. OneOwner' BY <1>1, <1>3 DEF DirInv, OneOwner
<1>9. NoOrphan' BY <1>1, <1>3 DEF DirInv, NoOrphan
<1> QED BY <1>4, <1>5, <1>6, <1>7, <1>8, <1>9 DEF DirInv, D!DirCacheAssumption

LEMMA NamesChangeOK ==
    ASSUME DirInv, NEW old \in DirNames, NEW n \in DirNames,
           D!Rmdir(n) \/ D!Rename(old, n) \/ D!Exchange(old, n)
    PROVE  DirInv'
<1>1. at \in [DirNames -> D!Dirs \union {None}] BY DEF DirInv, DirTypeOK
<1>2. CASE D!Rmdir(n)
  <2>1. [at EXCEPT ![n] = None] \in [DirNames -> D!Dirs \union {None}] BY <1>1
  <2> QED BY Zenon, <1>2, <2>1, RelinkOK DEF D!Rmdir
<1>3. CASE D!Rename(old, n)
  <2>1. [at EXCEPT ![n] = at[old], ![old] = None] \in [DirNames -> D!Dirs \union {None}] BY <1>1
  <2> QED BY Zenon, <1>3, <2>1, RelinkOK DEF D!Rename
<1>4. CASE D!Exchange(old, n)
  <2>1. [at EXCEPT ![n] = at[old], ![old] = at[n]] \in [DirNames -> D!Dirs \union {None}] BY <1>1
  <2> QED BY Zenon, <1>4, <2>1, RelinkOK DEF D!Exchange
<1> QED BY <1>2, <1>3, <1>4

LEMMA ReplyOK == ASSUME DirInv, D!Reply PROVE DirInv'
<1>1. UNCHANGED << gen, at, fds, entries, nextIndex, dirPc, loc >> /\ moved' = {}
  BY DEF D!Reply, D!cache
<1>2. tree' = [i \in DirInos |-> IF D!Linked(D!DirOf(i))
                                THEN CHOOSE n \in DirNames : at[n] = D!DirOf(i) ELSE None]
  BY DEF D!Reply
<1>3. ASSUME NEW i \in DirInos
      PROVE  tree'[i] = None \/ (tree'[i] \in DirNames /\ at[tree'[i]] = D!DirOf(i))
  BY <1>2 DEF D!Linked
<1>4. DirTypeOK' BY <1>1, <1>2, <1>3 DEF DirInv, DirTypeOK
<1>5. TreeOK' BY <1>1, <1>3 DEF TreeOK, D!DirOf
<1>6. \A k \in 1 .. dirCacheSize : EntryOK(k)' BY <1>1 DEF DirInv, EntryOK, Opened, D!DirOf
<1>7. \A t \in Threads : OperationOK(t)' BY <1>1 DEF DirInv, OperationOK, Opened, D!DirOf
<1> QED BY <1>1, <1>4, <1>5, <1>6, <1>7 DEF DirInv, OneOwner, NoOrphan, D!DirCacheAssumption

LEMMA LookupOK ==
    ASSUME DirInv, NEW t \in Threads, NEW i \in DirInos, D!Lookup(t, i) PROVE DirInv'
<1>1. UNCHANGED << gen, at, tree, moved, entries, nextIndex >> /\ dirPc[t] = "idle"
  BY DEF D!Lookup, D!dirs, D!cache
<1>2. loc[t].fd = 0 BY <1>1 DEF DirInv, OperationOK
<1>3. CASE D!Hits(i) = {} \/ D!FreeFds = {}
  <2> DEFINE l == [D!Empty EXCEPT !.node = i]
  <2>1. D!Step(t, "parent", l) /\ UNCHANGED fds BY <1>3 DEF D!Lookup
  <2>2. l \in Slots /\ l.fd = 0 /\ l.node = i
    <3>1. D!Empty \in Slots /\ D!Empty.fd = 0 BY DirConstants DEF DirInv, D!Empty, Slots
    <3> QED BY <3>1 DEF Slots
  <2> HIDE DEF l
  <2>3. dirPc'[t] = "parent" /\ loc'[t] = l /\ \A u \in Threads \ {t} : loc'[u] = loc[u]
    BY <2>1 DEF D!Step, DirInv, DirTypeOK
  <2>4. OperationOK(t)' BY <2>2, <2>3 DEF OperationOK
  <2>5. NoOrphan' BY <1>1, <1>2, <2>1, <2>3 DEF DirInv, NoOrphan
  <2>6. fds' \in [1 .. MaxFd -> D!Dirs \union {None}] BY <2>1 DEF DirInv, DirTypeOK
  <2> QED BY <1>1, <2>1, <2>2, <2>4, <2>5, <2>6, OfOneOperation
<1>4. CASE D!Hits(i) # {} /\ D!FreeFds # {}
  <2>0. PICK k \in D!Lowest(D!Hits(i)), f \in D!Lowest(D!FreeFds) :
            /\ fds' = [fds EXCEPT ![f] = fds[entries[k].fd]]
            /\ D!Step(t, "use", [entries[k] EXCEPT !.fd = f])
    BY Zenon, <1>4 DEF D!Lookup
  <2> DEFINE e == entries[k]
             l == [e EXCEPT !.fd = f]
  <2>1. fds' = [fds EXCEPT ![f] = fds[e.fd]] /\ D!Step(t, "use", l) BY <2>0
  <2>2. k \in 1 .. dirCacheSize /\ e.fd > 0 /\ e.node = i
    BY DEF D!Lowest, D!Hits, DirInv, DirTypeOK
  <2>3. Opened(e) /\ e.iv = fds[e.fd] /\ e \in Slots
    BY <2>2 DEF DirInv, DirTypeOK, EntryOK
  <2>4. f \in 1 .. MaxFd /\ fds[f] = None BY FreeFd
  <2>5. /\ \A j \in 1 .. dirCacheSize : entries[j].fd # f
        /\ \A u \in Threads : loc[u].fd # f
    BY <2>4, FreeIsUnowned
  <2> HIDE DEF e
  <2>6. l \in Slots /\ l.fd = f /\ l.node = i /\ l.iv = e.iv /\ l.sure = e.sure
    BY <2>2, <2>3, <2>4, DirConstants DEF DirInv, Slots
  <2> HIDE DEF l
  <2>7. fds[e.fd] \in D!Dirs \union {None} BY Zenon, <2>3 DEF DirInv, DirTypeOK, Opened
  <2>8. fds' \in [1 .. MaxFd -> D!Dirs \union {None}] /\ fds'[f] = fds[e.fd]
        /\ \A g \in 1 .. MaxFd : g # f => fds'[g] = fds[g]
    BY <2>1, <2>4, <2>7 DEF DirInv, DirTypeOK
  <2>9. dirPc'[t] = "use" /\ loc'[t] = l /\ \A u \in Threads \ {t} : loc'[u] = loc[u]
    BY <2>1 DEF D!Step, DirInv, DirTypeOK
  <2>10. OperationOK(t)'
    <3>1. fds[e.fd] # None /\ (e.sure => fds[e.fd] = D!DirOf(i)) BY <2>2, <2>3 DEF Opened
    <3> QED BY <1>1, <2>3, <2>4, <2>6, <2>8, <2>9, <3>1 DEF OperationOK, Opened, D!DirOf
  <2>11. NoOrphan' BY <1>1, <1>2, <2>4, <2>6, <2>8, <2>9 DEF DirInv, NoOrphan
  <2>12. \A g \in 1 .. MaxFd : fds'[g] # fds[g] =>
           /\ \A j \in 1 .. dirCacheSize : entries[j].fd # g
           /\ \A u \in Threads \ {t} : loc[u].fd # g
    BY <2>5, <2>8
  <2> QED BY <1>1, <2>1, <2>5, <2>6, <2>8, <2>10, <2>11, <2>12, OfOneOperation
<1> QED BY <1>3, <1>4

\* The operation has no descriptor, and goes on without one.
LEMMA WithoutFd ==
    ASSUME DirInv, NEW t \in Threads, dirPc[t] \in {"parent", "open"},
           NEW label \in {"idle", "open"}, NEW l \in Slots, l.fd = 0, D!Step(t, label, l),
           label = "open" => /\ l.node \in DirInos /\ l.name \in DirNames
                             /\ l.sure => at[l.name] = D!DirOf(l.node),
           UNCHANGED << gen, at, tree, moved, fds, entries, nextIndex >>
    PROVE  DirInv'
<1>1. dirPc'[t] = label /\ loc'[t] = l /\ \A u \in Threads \ {t} : loc'[u] = loc[u]
  BY DEF D!Step, DirInv, DirTypeOK
<1>2. loc[t].fd = 0 BY DEF DirInv, OperationOK
<1>3. OperationOK(t)' BY <1>1 DEF OperationOK, D!DirOf
<1>4. NoOrphan' BY <1>1, <1>2 DEF DirInv, NoOrphan
<1>5. fds' \in [1 .. MaxFd -> D!Dirs \union {None}] BY DEF DirInv, DirTypeOK
<1> QED BY <1>3, <1>4, <1>5, OfOneOperation

LEMMA ParentOK == ASSUME DirInv, NEW t \in Threads, D!Parent(t) PROVE DirInv'
<1> DEFINE i == loc[t].node
           l == [loc[t] EXCEPT !.name = tree[i], !.sure = i \notin moved]
<1>1. UNCHANGED << gen, at, tree, moved, fds, entries, nextIndex >> /\ dirPc[t] = "parent"
  BY DEF D!Parent, D!dirs, D!cache
<1>2. loc[t].fd = 0 /\ i \in DirInos /\ loc[t] \in Slots
  BY <1>1 DEF DirInv, DirTypeOK, OperationOK
<1>3. CASE tree[i] = None
  <2>1. D!Step(t, "idle", D!Empty) BY <1>3 DEF D!Parent
  <2>2. D!Empty \in Slots /\ D!Empty.fd = 0 BY DirConstants DEF DirInv, D!Empty, Slots
  <2> QED BY <1>1, <2>1, <2>2, WithoutFd
<1>4. CASE tree[i] # None
  <2>1. D!Step(t, "open", l) BY <1>4 DEF D!Parent
  <2>2. tree[i] \in DirNames BY <1>2, <1>4 DEF DirInv, DirTypeOK
  <2>3. i \notin moved => at[tree[i]] = D!DirOf(i) BY <1>2, <1>4 DEF DirInv, TreeOK
  <2>4. /\ l \in Slots /\ l.fd = 0 /\ l.node = i /\ l.name = tree[i]
        /\ l.sure <=> i \notin moved
    BY <1>2, <2>2 DEF Slots
  <2> HIDE DEF l, i
  <2> QED BY <1>1, <1>2, <2>1, <2>2, <2>3, <2>4, WithoutFd
<1> QED BY <1>3, <1>4

LEMMA OpenDirOK == ASSUME DirInv, NEW t \in Threads, D!OpenDir(t) PROVE DirInv'
<1> DEFINE i == loc[t].node
           d == at[loc[t].name]
<1>1. UNCHANGED << gen, at, tree, moved, entries, nextIndex >> /\ dirPc[t] = "open"
  BY DEF D!OpenDir, D!dirs, D!cache
<1>2. /\ loc[t].fd = 0 /\ i \in DirInos /\ loc[t] \in Slots
      /\ d \in D!Dirs \union {None} /\ (loc[t].sure => d = D!DirOf(i))
  BY <1>1 DEF DirInv, DirTypeOK, OperationOK
<1>3. CASE D!Step(t, "idle", D!Empty) /\ UNCHANGED fds
  <2>1. D!Empty \in Slots /\ D!Empty.fd = 0 BY DirConstants DEF DirInv, D!Empty, Slots
  <2> QED BY <1>1, <1>3, <2>1, WithoutFd
<1>4. ASSUME NEW f \in D!Lowest(D!FreeFds), d # None, fds' = [fds EXCEPT ![f] = d],
             D!Step(t, "readIV", [loc[t] EXCEPT !.fd = f, !.name = None])
      PROVE  DirInv'
  <2> DEFINE l == [loc[t] EXCEPT !.fd = f, !.name = None]
  <2>1. f \in 1 .. MaxFd /\ fds[f] = None BY FreeFd
  <2>2. /\ \A k \in 1 .. dirCacheSize : entries[k].fd # f
        /\ \A u \in Threads : loc[u].fd # f
    BY <2>1, FreeIsUnowned
  <2>3. l \in Slots /\ l.fd = f /\ l.node = i /\ l.sure = loc[t].sure
    <3>1. f \in 0 .. MaxFd BY <2>1
    <3> QED BY <1>2, <3>1 DEF Slots
  <2>4. D!Step(t, "readIV", l) BY <1>4
  <2> HIDE DEF l
  <2> HIDE DEF i, d
  <2>6. fds' \in [1 .. MaxFd -> D!Dirs \union {None}] /\ fds'[f] = d
        /\ \A g \in 1 .. MaxFd : g # f => fds'[g] = fds[g]
    BY <1>2, <1>4, <2>1 DEF DirInv, DirTypeOK
  <2>7. dirPc'[t] = "readIV" /\ loc'[t] = l /\ \A u \in Threads \ {t} : loc'[u] = loc[u]
    BY <2>4 DEF D!Step, DirInv, DirTypeOK
  <2>8. OperationOK(t)'
    BY <1>1, <1>2, <1>4, <2>1, <2>3, <2>6, <2>7 DEF OperationOK, Opened, D!DirOf
  <2>9. NoOrphan' BY <1>1, <1>2, <2>1, <2>3, <2>6, <2>7 DEF DirInv, NoOrphan
  <2>10. \A g \in 1 .. MaxFd : fds'[g] # fds[g] =>
           /\ \A k \in 1 .. dirCacheSize : entries[k].fd # g
           /\ \A u \in Threads \ {t} : loc[u].fd # g
    BY <2>2, <2>6
  <2> QED BY <1>1, <2>2, <2>3, <2>4, <2>6, <2>8, <2>9, <2>10, OfOneOperation
<1> QED BY Zenon, <1>3, <1>4 DEF D!OpenDir

\* The operation gives its descriptor back.
LEMMA ClosedOK ==
    ASSUME DirInv, NEW t \in Threads, dirPc[t] \in {"readIV", "use"},
           fds' = [fds EXCEPT ![loc[t].fd] = None], D!Step(t, "idle", D!Empty),
           UNCHANGED << gen, at, tree, moved, entries, nextIndex >>
    PROVE  DirInv'
<1> DEFINE f == loc[t].fd
<1>1. f \in 1 .. MaxFd BY DEF DirInv, OperationOK, Opened
<1>2. /\ \A k \in 1 .. dirCacheSize : entries[k].fd # f
      /\ \A u \in Threads \ {t} : loc[u].fd # f
  BY <1>1 DEF DirInv, OneOwner, DirTypeOK, Slots
<1>3. D!Empty \in Slots /\ D!Empty.fd = 0 BY DirConstants DEF DirInv, D!Empty, Slots
<1>4. dirPc'[t] = "idle" /\ loc'[t] = D!Empty /\ \A u \in Threads \ {t} : loc'[u] = loc[u]
  BY DEF D!Step, DirInv, DirTypeOK
<1>5. fds' \in [1 .. MaxFd -> D!Dirs \union {None}] /\ fds'[f] = None
      /\ \A g \in 1 .. MaxFd : g # f => fds'[g] = fds[g]
  BY <1>1 DEF DirInv, DirTypeOK
<1>6. OperationOK(t)' BY <1>3, <1>4 DEF OperationOK
<1>7. NoOrphan' BY <1>4, <1>5 DEF DirInv, NoOrphan
<1>8. \A g \in 1 .. MaxFd : fds'[g] # fds[g] =>
         /\ \A k \in 1 .. dirCacheSize : entries[k].fd # g
         /\ \A u \in Threads \ {t} : loc[u].fd # g
  BY Zenon, <1>2, <1>5
<1> QED BY <1>3, <1>5, <1>6, <1>7, <1>8, OfOneOperation

LEMMA ReadDirIVOK == ASSUME DirInv, NEW t \in Threads, D!ReadDirIVAt(t) PROVE DirInv'
<1>1. UNCHANGED << gen, at, tree, moved, entries, nextIndex >> /\ dirPc[t] = "readIV"
  BY DEF D!ReadDirIVAt, D!dirs, D!cache
<1>2. CASE fds' = [fds EXCEPT ![loc[t].fd] = None] /\ D!Step(t, "idle", D!Empty)
  BY Zenon, <1>1, <1>2, ClosedOK
<1>3. CASE D!Step(t, "store", [loc[t] EXCEPT !.iv = D!IvOf(fds[loc[t].fd])]) /\ UNCHANGED fds
  <2> DEFINE l == [loc[t] EXCEPT !.iv = fds[loc[t].fd]]
  <2>1. Opened(loc[t]) /\ loc[t] \in Slots BY <1>1 DEF DirInv, OperationOK, DirTypeOK
  <2>2. fds[loc[t].fd] \in D!Dirs \union {None} BY Zenon, <2>1 DEF Opened, DirInv, DirTypeOK
  <2>3. /\ l \in Slots /\ l.fd = loc[t].fd /\ l.node = loc[t].node /\ l.iv = fds[l.fd]
        /\ l.sure = loc[t].sure
    BY <2>1, <2>2 DEF Slots
  <2>4. D!Step(t, "store", l) BY <1>3 DEF D!IvOf
  <2> HIDE DEF l
  <2>5. dirPc'[t] = "store" /\ loc'[t] = l /\ \A u \in Threads \ {t} : loc'[u] = loc[u]
    BY <2>4 DEF D!Step, DirInv, DirTypeOK
  <2>6. OperationOK(t)' BY <1>1, <1>3, <2>1, <2>3, <2>5 DEF OperationOK, Opened, D!DirOf
  <2>7. NoOrphan' BY <1>1, <1>3, <2>3, <2>5 DEF DirInv, NoOrphan
  <2>8. fds' \in [1 .. MaxFd -> D!Dirs \union {None}] BY <1>3 DEF DirInv, DirTypeOK
  <2>9. l.fd > 0 => /\ \A k \in 1 .. dirCacheSize : entries[k].fd # l.fd
                    /\ \A u \in Threads \ {t} : loc[u].fd # l.fd
    BY <2>3 DEF DirInv, OneOwner
  <2> QED BY <1>1, <1>3, <2>3, <2>4, <2>6, <2>7, <2>8, <2>9, OfOneOperation
<1> QED BY <1>2, <1>3 DEF D!ReadDirIVAt

\* The slot that is overwritten gives its descriptor back first.
LEMMA ClearedSlot ==
    ASSUME DirInv
    PROVE  LET ff == D!Cleared(fds, entries[nextIndex]) IN
           /\ ff \in [1 .. MaxFd -> D!Dirs \union {None}]
           /\ \A f \in 1 .. MaxFd : f = entries[nextIndex].fd => ff[f] = None
           /\ \A f \in 1 .. MaxFd : f # entries[nextIndex].fd => ff[f] = fds[f]
BY DirConstants DEF D!Cleared, DirInv, DirTypeOK, Slots

LEMMA StoreOK == ASSUME DirInv, NEW t \in Threads, D!Store(t) PROVE DirInv'
<1> DEFINE n == nextIndex
           ff == D!Cleared(fds, entries[n])
           free == {f \in DOMAIN ff : ff[f] = None}
           old == entries[n].fd
<1>1. UNCHANGED << gen, at, tree, moved >> /\ dirPc[t] = "store" /\ D!Step(t, "use", loc[t])
  BY DEF D!Store, D!dirs
<1>2. n \in 1 .. dirCacheSize /\ nextIndex' \in 1 .. dirCacheSize
  BY DirConstants DEF D!Store, DirInv, DirTypeOK
<1>11. old \in 0 .. MaxFd
  <2>1. entries[n] \in Slots BY Zenon, <1>2 DEF DirInv, DirTypeOK
  <2> QED BY <2>1 DEF Slots
<1>3. /\ ff \in [1 .. MaxFd -> D!Dirs \union {None}]
      /\ \A f \in 1 .. MaxFd : f = old => ff[f] = None
      /\ \A f \in 1 .. MaxFd : f # old => ff[f] = fds[f]
  BY ClearedSlot
<1>4. /\ dirPc'[t] = "use" /\ loc' = loc
      /\ \A u \in Threads \ {t} : dirPc'[u] = dirPc[u]
      /\ dirPc' \in [Threads -> {"idle", "parent", "open", "readIV", "store", "use"}]
  BY <1>1 DEF D!Step, DirInv, DirTypeOK
<1>5. Opened(loc[t]) /\ loc[t].iv = fds[loc[t].fd] /\ loc[t] \in Slots
  BY <1>1 DEF DirInv, OperationOK, DirTypeOK
<1>6. \A u \in Threads : loc[u].fd > 0 => loc[u].fd # old
  BY <1>2 DEF DirInv, OneOwner
<1>7. \A k \in 1 .. dirCacheSize : k # n /\ entries[k].fd > 0 => entries[k].fd # old
  BY <1>2 DEF DirInv, OneOwner
<1>8. ASSUME NEW e \in Slots, entries' = [entries EXCEPT ![n] = e],
             fds' \in [1 .. MaxFd -> D!Dirs \union {None}],
             \A f \in 1 .. MaxFd : f # old /\ f # e.fd => fds'[f] = fds[f],
             e.fd # old /\ old > 0 => fds'[old] = None,
             e.fd > 0 => /\ fds[e.fd] = None \/ e.fd = old
                         /\ e.node = loc[t].node /\ e.iv = loc[t].iv /\ e.sure = loc[t].sure
                         /\ fds'[e.fd] = fds[loc[t].fd]
      PROVE  DirInv'
  <2> HIDE DEF n, ff, free, old
  <2>1. entries'[n] = e /\ \A k \in 1 .. dirCacheSize : k # n => entries'[k] = entries[k]
    BY <1>2, <1>8 DEF DirInv, DirTypeOK
  <2>2. DirTypeOK' BY <1>1, <1>2, <1>4, <1>8 DEF DirInv, DirTypeOK
  <2>3. e.fd \in 0 .. MaxFd /\ e.fd \in Nat /\ old \in 0 .. MaxFd /\ old \in Nat
    BY <1>8, <1>11, DirConstants DEF Slots, DirInv
  <2>4. e.fd > 0 => /\ \A k \in 1 .. dirCacheSize : k # n => entries[k].fd # e.fd
                    /\ \A u \in Threads : loc[u].fd # e.fd
    <3>1. CASE e.fd > 0 /\ fds[e.fd] = None
      <4>1. e.fd \in 1 .. MaxFd BY <2>3, <3>1
      <4> QED BY <3>1, <4>1, FreeIsUnowned
    <3>2. CASE e.fd > 0 /\ e.fd = old BY <1>6, <1>7, <3>2
    <3> QED BY <1>8, <3>1, <3>2
  <2>5. ASSUME NEW s, Opened(s), s.fd # old, s.fd # e.fd
        PROVE  /\ fds'[s.fd] = fds[s.fd] /\ s.fd \in 1 .. MaxFd /\ s.node \in DirInos
               /\ fds'[s.fd] # None /\ (s.sure => fds'[s.fd] = << s.node, gen'[s.node] >>)
    BY <1>1, <1>8, <2>5 DEF Opened, D!DirOf
  <2>6. ASSUME NEW k \in 1 .. dirCacheSize PROVE EntryOK(k)'
    <3>1. CASE k = n
      BY <1>1, <1>5, <1>8, <2>1, <2>3, <3>1 DEF EntryOK, Opened, D!DirOf
    <3>2. CASE k # n
      <4>1. EntryOK(k) /\ entries'[k] = entries[k] BY <2>1, <3>2 DEF DirInv
      <4>2. entries[k].fd > 0 => entries[k].fd # old /\ entries[k].fd # e.fd
        BY <1>7, <2>3, <2>4, <3>2
      <4>3. CASE entries[k].fd > 0
        <5>1. Opened(entries[k]) /\ entries[k].iv = fds[entries[k].fd] BY <4>1, <4>3 DEF EntryOK
        <5> QED BY <2>5, <4>1, <4>2, <4>3, <5>1 DEF EntryOK, Opened, D!DirOf
      <4>4. CASE ~(entries[k].fd > 0) BY <4>1, <4>4 DEF EntryOK
      <4> QED BY <4>3, <4>4
    <3> QED BY <3>1, <3>2
  <2>7. ASSUME NEW u \in Threads PROVE OperationOK(u)'
    <3>1. OperationOK(u) BY DEF DirInv
    <3>2. ASSUME Opened(loc[u]) PROVE loc[u].fd # old /\ loc[u].fd # e.fd
      <4>1. MaxFd \in Nat BY DirConstants DEF DirInv
      <4>2. loc[u].fd > 0 BY <3>2, <4>1 DEF Opened
      <4> QED BY <1>6, <2>3, <2>4, <4>2
    <3>3. Opened(loc[u]) => Opened(loc[u])' /\ fds'[loc[u].fd] = fds[loc[u].fd]
      BY <1>4, <2>5, <3>2 DEF Opened, D!DirOf
    <3>4. CASE u = t BY <1>4, <1>5, <3>3, <3>4 DEF OperationOK
    <3>5. CASE u # t BY <1>1, <1>4, <3>1, <3>3, <3>5 DEF OperationOK, D!DirOf
    <3> QED BY <3>4, <3>5
  <2>8. OneOwner'
    <3>1. OneOwner BY DEF DirInv
    <3>2. ASSUME NEW k \in 1 .. dirCacheSize, NEW l \in 1 .. dirCacheSize,
                 entries'[k].fd > 0, entries'[k].fd = entries'[l].fd
          PROVE  k = l
      <4>1. k = n /\ l # n => entries'[l].fd # e.fd BY <2>1, <2>4, <3>2
      <4>2. k # n /\ l = n => entries'[k].fd # e.fd BY <2>1, <2>4, <3>2
      <4>3. k # n /\ l # n => entries'[k] = entries[k] /\ entries'[l] = entries[l] BY <2>1
      <4> QED BY <2>1, <3>1, <3>2, <4>1, <4>2, <4>3 DEF OneOwner
    <3>3. ASSUME NEW k \in 1 .. dirCacheSize, NEW u \in Threads, entries'[k].fd > 0
          PROVE  entries'[k].fd # loc'[u].fd
      <4>1. CASE k = n BY <1>4, <2>1, <2>4, <3>3, <4>1
      <4>2. CASE k # n
        <5>1. entries'[k] = entries[k] /\ loc' = loc BY <1>4, <2>1, <4>2
        <5> QED BY <3>1, <3>3, <5>1 DEF OneOwner
      <4> QED BY <4>1, <4>2
    <3> QED BY <1>4, <3>1, <3>2, <3>3 DEF OneOwner
  <2>9. NoOrphan'
    <3> SUFFICES ASSUME NEW f \in 1 .. MaxFd, fds'[f] # None
                 PROVE  \/ \E k \in 1 .. dirCacheSize : entries'[k].fd = f
                        \/ \E u \in Threads : loc'[u].fd = f
      BY DEF NoOrphan
    <3>1. CASE f = e.fd BY <1>2, <2>1, <3>1
    <3>2. CASE f # e.fd
      <4>1. f # old BY <1>8, <3>2
      <4>2. fds[f] # None BY <1>8, <3>2, <4>1
      <4>3. CASE \E u \in Threads : loc[u].fd = f BY <1>4, <4>3
      <4>4. CASE \E k \in 1 .. dirCacheSize : entries[k].fd = f
        <5>1. PICK k \in 1 .. dirCacheSize : entries[k].fd = f BY <4>4
        <5>2. k # n BY <4>1, <5>1 DEF old
        <5> QED BY <2>1, <5>1, <5>2
      <4> QED BY <4>2, <4>3, <4>4 DEF DirInv, NoOrphan
    <3> QED BY <3>1, <3>2
  <2>10. TreeOK' BY <1>1 DEF DirInv, TreeOK, D!DirOf
  <2> QED BY <2>2, <2>6, <2>7, <2>8, <2>9, <2>10 DEF DirInv, D!DirCacheAssumption
<1>9. CASE free = {}
  <2>1. fds' = ff /\ entries' = [entries EXCEPT ![n] = D!Empty] BY <1>9 DEF D!Store
  <2>2. D!Empty \in Slots /\ D!Empty.fd = 0 BY DirConstants DEF DirInv, D!Empty, Slots
  <2>3. old \in 0 .. MaxFd BY Zenon, <1>11
  <2> HIDE DEF ff, old
  <2>4. fds' \in [1 .. MaxFd -> D!Dirs \union {None}] BY <1>3, <2>1
  <2>5. \A f \in 1 .. MaxFd : f # old /\ f # D!Empty.fd => fds'[f] = fds[f] BY <1>3, <2>1
  <2>6. D!Empty.fd # old /\ old > 0 => fds'[old] = None
    BY <1>3, <2>1, <2>3, DirConstants DEF DirInv
  <2>7. ~(D!Empty.fd > 0) BY <2>2
  <2> QED BY Zenon, <1>8, <2>1, <2>2, <2>4, <2>5, <2>6, <2>7
<1>10. CASE free # {}
  <2>0. PICK g \in D!Lowest(free) :
            /\ fds' = [ff EXCEPT ![g] = ff[loc[t].fd]]
            /\ entries' = [entries EXCEPT ![n] = [loc[t] EXCEPT !.fd = g]]
    BY <1>10 DEF D!Store
  <2> DEFINE e == [loc[t] EXCEPT !.fd = g]
  <2>1. fds' = [ff EXCEPT ![g] = ff[loc[t].fd]] /\ entries' = [entries EXCEPT ![n] = e]
    BY <2>0
  <2>2. g \in 1 .. MaxFd /\ ff[g] = None BY Zenon, <1>3 DEF D!Lowest
  <2>3. e \in Slots /\ e.fd = g /\ e.node = loc[t].node /\ e.iv = loc[t].iv /\ e.sure = loc[t].sure
    BY <1>5, <2>2, DirConstants DEF DirInv, Slots
  <2> HIDE DEF e
  <2>4. loc[t].fd \in 1 .. MaxFd /\ loc[t].fd # old
    <3>1. loc[t].fd \in 1 .. MaxFd BY Zenon, <1>5 DEF Opened
    <3>2. \A f \in 1 .. MaxFd : f > 0 BY DirConstants DEF DirInv
    <3> QED BY Zenon, <1>6, <3>1, <3>2
  <2>5. old \in 0 .. MaxFd BY Zenon, <1>11
  <2> HIDE DEF ff, old, free
  <2>6. ff[loc[t].fd] = fds[loc[t].fd] /\ ff[loc[t].fd] \in D!Dirs \union {None}
    BY <1>3, <2>4
  <2>7. /\ fds' \in [1 .. MaxFd -> D!Dirs \union {None}] /\ fds'[g] = fds[loc[t].fd]
        /\ \A f \in 1 .. MaxFd : f # g => fds'[f] = ff[f]
    BY <1>3, <2>1, <2>2, <2>6
  <2>8. fds[g] = None \/ g = old BY <1>3, <2>2
  <2>9. g # old /\ old > 0 => fds'[old] = None
    BY <1>3, <2>5, <2>7, DirConstants DEF DirInv
  <2>10. \A f \in 1 .. MaxFd : f # old /\ f # g => fds'[f] = fds[f] BY <1>3, <2>7
  <2> QED BY Zenon, <1>8, <2>1, <2>3, <2>7, <2>8, <2>9, <2>10
<1> QED BY <1>9, <1>10

LEMMA CloseOK == ASSUME DirInv, NEW t \in Threads, D!Close(t) PROVE DirInv'
BY Zenon, ClosedOK DEF D!Close, D!dirs, D!cache

LEMMA ExpireOK == ASSUME DirInv, D!Expire PROVE DirInv'
<1>1. UNCHANGED << gen, at, tree, moved, nextIndex, dirPc, loc >> BY DEF D!Expire, D!dirs
<1>2. D!Empty \in Slots /\ D!Empty.fd = 0 BY DirConstants DEF DirInv, D!Empty, Slots
<1>3. entries' = [k \in 1 .. dirCacheSize |-> D!Empty] BY DEF D!Expire, DirInv, DirTypeOK
<1>4. \A f \in 1 .. MaxFd :
         fds'[f] = IF \E k \in 1 .. dirCacheSize : entries[k].fd = f THEN None ELSE fds[f]
  BY DEF D!Expire, DirInv, DirTypeOK
<1>5. fds' \in [1 .. MaxFd -> D!Dirs \union {None}] BY DEF D!Expire, DirInv, DirTypeOK
<1>6. DirTypeOK' BY <1>1, <1>2, <1>3, <1>5 DEF DirInv, DirTypeOK
<1>7. \A k \in 1 .. dirCacheSize : EntryOK(k)' BY <1>2, <1>3 DEF EntryOK
<1>8. ASSUME NEW t \in Threads PROVE OperationOK(t)'
  <2>1. OperationOK(t) BY DEF DirInv
  <2>2. Opened(loc[t]) => \A k \in 1 .. dirCacheSize : entries[k].fd # loc[t].fd
    BY SMTT(30), DirConstants DEF Opened, DirInv, OneOwner
  <2>3. Opened(loc[t]) => fds'[loc[t].fd] = fds[loc[t].fd] BY <1>4, <2>2 DEF Opened
  <2> QED BY <1>1, <2>1, <2>3 DEF OperationOK, Opened, D!DirOf
<1>9. OneOwner'
  <2>1. \A k \in 1 .. dirCacheSize : entries'[k].fd = 0 BY Zenon, <1>2, <1>3
  <2>2. ~(0 > 0) OBVIOUS
  <2>3. \A k \in 1 .. dirCacheSize : ~(entries'[k].fd > 0) BY Zenon, <2>1, <2>2
  <2> QED BY Zenon, <1>1, <2>3 DEF DirInv, OneOwner
<1>10. NoOrphan'
  <2> SUFFICES ASSUME NEW f \in 1 .. MaxFd, fds'[f] # None
               PROVE  \E t \in Threads : loc'[t].fd = f
    BY Zenon DEF NoOrphan
  <2>1. fds[f] # None /\ ~\E k \in 1 .. dirCacheSize : entries[k].fd = f BY Zenon, <1>4
  <2> QED BY Zenon, <1>1, <2>1 DEF DirInv, NoOrphan
<1>11. TreeOK' BY <1>1 DEF DirInv, TreeOK, D!DirOf
<1> QED BY <1>6, <1>7, <1>8, <1>9, <1>10, <1>11 DEF DirInv, D!DirCacheAssumption

LEMMA DirStutterOK == DirInv /\ UNCHANGED D!vars => DirInv'
<1> SUFFICES ASSUME DirInv, UNCHANGED D!vars PROVE DirInv' OBVIOUS
<1>1. UNCHANGED << gen, at, tree, moved, fds, entries, nextIndex, dirPc, loc >>
  BY Zenon DEF D!vars, D!dirs, D!cache
<1>2. DirTypeOK' BY Zenon, <1>1 DEF DirInv, DirTypeOK
<1>3. \A k \in 1 .. dirCacheSize : EntryOK(k)' BY Zenon, <1>1 DEF DirInv, EntryOK, Opened, D!DirOf
<1>4. \A t \in Threads : OperationOK(t)' BY Zenon, <1>1 DEF DirInv, OperationOK, Opened, D!DirOf
<1>5. OneOwner' BY Zenon, <1>1 DEF DirInv, OneOwner
<1>6. NoOrphan' BY Zenon, <1>1 DEF DirInv, NoOrphan
<1>7. TreeOK' BY Zenon, <1>1 DEF DirInv, TreeOK, D!DirOf
<1> QED BY Zenon, <1>2, <1>3, <1>4, <1>5, <1>6, <1>7 DEF DirInv, D!DirCacheAssumption

LEMMA DirNextOK == DirInv /\ [D!Next]_D!vars => DirInv'
BY MkdirOK, NamesChangeOK, ReplyOK, LookupOK, ParentOK, OpenDirOK, ReadDirIVOK, StoreOK, CloseOK,
   ExpireOK, DirStutterOK
DEF D!Next

LEMMA OneOwnerEach == DirInv => D!NoFdLeak
<1> SUFFICES ASSUME DirInv PROVE D!NoFdLeak OBVIOUS
<1>1. DOMAIN fds = 1 .. MaxFd /\ DOMAIN entries = 1 .. dirCacheSize BY DEF DirInv, DirTypeOK
<1> SUFFICES ASSUME NEW f \in 1 .. MaxFd
             PROVE  IF fds[f] = None THEN D!Owners(f) = {}
                    ELSE \E o \in D!Owners(f) : D!Owners(f) = {o}
  BY <1>1 DEF D!NoFdLeak
<1> DEFINE cached == {k \in DOMAIN entries : entries[k].fd = f}
           held == {t \in Threads : loc[t].fd = f}
<1>2. D!Owners(f) = ({"entry"} \X cached) \union ({"operation"} \X held) BY DEF D!Owners
<1>3. CASE fds[f] = None
  <2>1. cached = {} /\ held = {} BY <1>1, <1>3, FreeIsUnowned
  <2> QED BY <1>2, <1>3, <2>1
<1>4. CASE fds[f] # None
  <2>1. CASE cached # {}
    <3>1. PICK k \in cached : TRUE BY <2>1
    <3>2. cached = {k} /\ held = {} BY <1>1, <3>1 DEF DirInv, OneOwner
    <3> HIDE DEF cached, held
    <3>3. D!Owners(f) = {<< "entry", k >>} BY <1>2, <3>2
    <3> QED BY <1>4, <3>3
  <2>2. CASE cached = {}
    <3>1. PICK t \in held : TRUE BY <1>1, <1>4, <2>2 DEF DirInv, NoOrphan
    <3>2. held = {t} BY <1>1, <3>1 DEF DirInv, OneOwner
    <3> HIDE DEF cached, held
    <3>3. D!Owners(f) = {<< "operation", t >>} BY <1>2, <2>2, <3>2
    <3> QED BY <1>4, <3>3
  <2> QED BY <2>1, <2>2
<1> QED BY <1>3, <1>4

\* For any size of the cache and of the descriptor table, any number of operations, any
\* renames and any reuse of inode numbers: what prepareAtSyscall hands out is a directory
\* with its own IV, and the one its Node stands for unless a change of name has overtaken
\* the slow path that opened it, and every open descriptor has exactly one owner
\* (dirCache.Lookup, Store, Clear, expireThread).
THEOREM DirCacheIsRight == D!DirCacheAssumption /\ D!Spec => []DirCacheIsSound
<1>1. DirInv => D!RightDirectory
  BY DEF DirInv, OperationOK, Opened, D!RightDirectory, D!IvOf
<1>2. DirInv => DirCacheIsSound
  BY <1>1, OneOwnerEach DEF DirCacheIsSound, D!DirCacheIsSound
<1> QED BY <1>2, DirInitOK, DirNextOK, PTL DEF D!Spec

----------------------------------------------------------------------------
(* InoMap                                                                  *)

\* Where a number came from: the spill map, or the namespace of the device.
FromSpill(q) == spillMap[q] # Absent /\ given[q] = spillMap[q]
FromNamespace(q) ==
    /\ q[2] < PassthruSpace
    /\ namespaceMap[q[1]] # Absent
    /\ given[q] = Passthru(namespaceMap[q[1]], q[2])

\* Namespace ids are below namespaceNext and distinct; rootDev has id 0.
NamespacesOK ==
    /\ RootNamespace # Absent => namespaceMap[RootNamespace] = 0
    /\ namespaceNext <= MaxNamespaceId
    /\ \A n \in Namespaces : namespaceMap[n] # Absent => namespaceMap[n] < namespaceNext
    /\ \A m, n \in Namespaces :
          namespaceMap[m] # Absent /\ namespaceMap[m] = namespaceMap[n] => m = n

\* Spill numbers come from the counter and are distinct.
SpillOK ==
    /\ spillNext >= SpillSpaceStart
    /\ \A q \in QInos : spillMap[q] # Absent =>
          spillMap[q] >= SpillSpaceStart /\ spillMap[q] < spillNext
    /\ \A p, q \in QInos : spillMap[p] # Absent /\ spillMap[p] = spillMap[q] => p = q
    /\ \A u \in unmapped : u >= SpillSpaceStart /\ u < spillNext
    /\ \A q \in QInos : spillMap[q] \notin unmapped

\* A QIno that is in the spill map will be looked for there again.
SpilledStays == \A q \in QInos : spillMap[q] # Absent => Spills(q[1], q[2])

GivenOK == \A q \in QInos : given[q] # Absent => FromSpill(q) \/ FromNamespace(q)

IInv == TypeOK /\ NamespacesOK /\ SpillOK /\ SpilledStays /\ GivenOK

\* Shifting a namespace id above the inode number keeps the two apart
\* (uint64(ns)<<48 | ino in Translate).
LEMMA PassthruInjective ==
    ASSUME NEW m \in Nat, NEW n \in Nat, NEW i \in Nat, NEW j \in Nat,
           i < PassthruSpace, j < PassthruSpace, Passthru(m, i) = Passthru(n, j)
    PROVE  m = n /\ i = j
<1>0. PassthruSpace \in Nat \ {0} BY InoMapAssumption
<1>1. ASSUME NEW a \in Nat, NEW b \in Nat, a < b
      PROVE  b * PassthruSpace >= a * PassthruSpace + PassthruSpace
  <2>1. PICK k \in Nat : b = a + 1 + k
    <3>1. b - a - 1 \in Nat /\ b = a + 1 + (b - a - 1) BY <1>1
    <3> QED BY <3>1
  <2>2. b * PassthruSpace = a * PassthruSpace + PassthruSpace + k * PassthruSpace
    BY <2>1, <1>0
  <2>3. k * PassthruSpace >= 0 BY <1>0
  <2>4. k * PassthruSpace \in Int /\ a * PassthruSpace \in Int BY <1>0
  <2> QED BY <2>2, <2>3, <2>4, <1>0
<1>2. m * PassthruSpace \in Int /\ n * PassthruSpace \in Int BY <1>0
<1>3. ~(m < n) BY <1>1, <1>2, <1>0 DEF Passthru
<1>4. ~(n < m) BY <1>1, <1>2, <1>0 DEF Passthru
<1> QED BY <1>3, <1>4, <1>2 DEF Passthru

\* Numbers made from a namespace id lie below the spill space (the spill bit).
LEMMA PassthruBelowSpill ==
    ASSUME NEW n \in Nat, NEW i \in Nat, n < MaxNamespaceId, i < PassthruSpace
    PROVE  Passthru(n, i) \in Nat /\ Passthru(n, i) < SpillSpaceStart
<1>0. PassthruSpace \in Nat \ {0} /\ MaxNamespaceId \in Nat /\ SpillSpaceStart \in Nat
      /\ MaxNamespaceId * PassthruSpace <= SpillSpaceStart
  BY InoMapAssumption
<1>1. PICK k \in Nat : MaxNamespaceId = n + 1 + k
  <2>1. MaxNamespaceId - n - 1 \in Nat /\ MaxNamespaceId = n + 1 + (MaxNamespaceId - n - 1)
    BY <1>0
  <2> QED BY <2>1
<1>2. MaxNamespaceId * PassthruSpace = n * PassthruSpace + PassthruSpace + k * PassthruSpace
  BY <1>1, <1>0
<1>3. k * PassthruSpace \in Nat /\ n * PassthruSpace \in Nat BY <1>0
<1> QED BY <1>0, <1>2, <1>3 DEF Passthru

LEMMA InitOK == Init => IInv
<1> SUFFICES ASSUME Init PROVE IInv OBVIOUS
<1> USE InoMapAssumption DEF Init
<1>1. TypeOK BY DEF TypeOK
<1>2. NamespacesOK
  <2>1. namespaceNext <= MaxNamespaceId OBVIOUS
  <2>2. \A n \in Namespaces : namespaceMap[n] # Absent => n = RootNamespace /\ namespaceMap[n] = 0
    OBVIOUS
  <2>3. \A n \in Namespaces : namespaceMap[n] # Absent => namespaceMap[n] < namespaceNext
    <3>1. SUFFICES ASSUME NEW n \in Namespaces, namespaceMap[n] # Absent
                   PROVE  0 < namespaceNext
      BY Zenon, <2>2
    <3>2. RootNamespace # Absent BY <3>1, <2>2
    <3> QED BY <3>2
  <2>4. RootNamespace # Absent => namespaceMap[RootNamespace] = 0 OBVIOUS
  <2> QED BY Zenon, <2>1, <2>2, <2>3, <2>4 DEF NamespacesOK
<1>3. SpillOK BY DEF SpillOK
<1>4. SpilledStays /\ GivenOK BY DEF SpilledStays, GivenOK
<1> QED BY <1>1, <1>2, <1>3, <1>4 DEF IInv

----------------------------------------------------------------------------
(* One lemma for each way a step can answer.                               *)

\* A number taken from the spill map, new or not.
LEMMA SpillStep ==
    ASSUME IInv, NEW ns \in Namespaces, NEW ino \in Inos,
           Spills(ns, ino), spill(<< ns, ino >>), UNCHANGED unmapped
    PROVE  IInv'
<1> DEFINE q0 == << ns, ino >>
<1>0. q0 \in QInos /\ q0[1] = ns /\ q0[2] = ino BY DEF QInos
<1>1. CASE spillMap[q0] # Absent /\ given' = [given EXCEPT ![q0] = spillMap[q0]]
           /\ UNCHANGED << spillMap, spillNext >>
  <2> USE <1>0, <1>1 DEF spill
  <2>1. TypeOK' BY DEF IInv, TypeOK
  <2>2. NamespacesOK' BY DEF IInv, NamespacesOK
  <2>3. SpillOK' BY DEF IInv, SpillOK
  <2>4. SpilledStays' BY DEF IInv, SpilledStays, Spills
  <2>5. GivenOK'
    BY DEF IInv, GivenOK, FromSpill, FromNamespace, TypeOK
  <2> QED BY <2>1, <2>2, <2>3, <2>4, <2>5 DEF IInv
<1>2. CASE /\ spillMap[q0] = Absent
           /\ spillMap' = [spillMap EXCEPT ![q0] = spillNext]
           /\ spillNext' = spillNext + 1
           /\ given' = [given EXCEPT ![q0] = spillNext]
  <2> USE <1>0, <1>2, InoMapAssumption DEF spill
  <2>1. TypeOK' BY DEF IInv, TypeOK
  <2>2. NamespacesOK' BY DEF IInv, NamespacesOK
  <2>3. SpillOK'
    <3>1. \A q \in QInos : spillMap'[q] = IF q = q0 THEN spillNext ELSE spillMap[q]
      BY DEF IInv, TypeOK
    <3>2. spillNext \in Nat /\ spillNext \notin unmapped
      BY DEF IInv, TypeOK, SpillOK
    <3> QED BY <3>1, <3>2 DEF IInv, SpillOK, TypeOK
  <2>4. SpilledStays' BY DEF IInv, SpilledStays, Spills, TypeOK
  <2>5. GivenOK'
    BY DEF IInv, GivenOK, FromSpill, FromNamespace, TypeOK
  <2> QED BY <2>1, <2>2, <2>3, <2>4, <2>5 DEF IInv
<1> QED BY <1>1, <1>2 DEF spill

LEMMA UseNamespaceStep ==
    ASSUME IInv, NEW ns \in Namespaces, NEW ino \in Inos,
           ~Spills(ns, ino), UseNamespace(ns, ino), UNCHANGED unmapped
    PROVE  IInv'
<1> DEFINE q0 == << ns, ino >>
<1>0. q0 \in QInos /\ q0[1] = ns /\ q0[2] = ino BY DEF QInos
<1>1. ino \in Nat /\ ino < PassthruSpace /\ PassthruSpace \in Nat
  BY InoMapAssumption DEF Spills
<1>2. namespaceMap[ns] \in Nat /\ namespaceMap[ns] < MaxNamespaceId
  BY InoMapAssumption DEF UseNamespace, IInv, TypeOK, NamespacesOK
<1>3. Passthru(namespaceMap[ns], ino) \in Nat BY <1>1, <1>2, PassthruBelowSpill
<1> USE DEF UseNamespace
<1>4. TypeOK' BY <1>0, <1>3 DEF IInv, TypeOK
<1>5. NamespacesOK' /\ SpillOK' BY DEF IInv, NamespacesOK, SpillOK
<1>6. SpilledStays' BY DEF IInv, SpilledStays, Spills
<1>7. GivenOK' BY <1>0, <1>1 DEF IInv, GivenOK, FromSpill, FromNamespace, TypeOK, Passthru
<1> QED BY <1>4, <1>5, <1>6, <1>7 DEF IInv

LEMMA NewNamespaceStep ==
    ASSUME IInv, NEW ns \in Namespaces, NEW ino \in Inos,
           ~Spills(ns, ino), NewNamespace(ns, ino), UNCHANGED unmapped
    PROVE  IInv'
<1> DEFINE q0 == << ns, ino >>
<1>0. q0 \in QInos /\ q0[1] = ns /\ q0[2] = ino BY DEF QInos
<1>1. ino \in Nat /\ ino < PassthruSpace /\ PassthruSpace \in Nat /\ MaxNamespaceId \in Nat
      /\ Absent \notin Nat
  BY InoMapAssumption DEF Spills
<1>2. namespaceNext \in Nat /\ namespaceNext < MaxNamespaceId
  BY DEF NewNamespace, IInv, TypeOK
<1>3. Passthru(namespaceNext, ino) \in Nat BY <1>1, <1>2, PassthruBelowSpill
<1>n. \A n \in Namespaces : namespaceMap'[n] = IF n = ns THEN namespaceNext ELSE namespaceMap[n]
  BY DEF NewNamespace, IInv, TypeOK
<1>4. TypeOK' BY <1>0, <1>2, <1>3 DEF IInv, TypeOK, NewNamespace
<1>5. NamespacesOK' BY <1>n, <1>1, <1>2 DEF IInv, NamespacesOK, NewNamespace, TypeOK
<1>6. SpillOK' BY DEF IInv, SpillOK, NewNamespace
<1>7. SpilledStays'
  <2> SUFFICES ASSUME NEW q \in QInos, spillMap[q] # Absent
               PROVE  Spills(q[1], q[2])'
    BY DEF SpilledStays, NewNamespace
  <2>1. q[2] >= PassthruSpace
    BY <1>1, <1>2 DEF IInv, SpilledStays, Spills
  <2> QED BY <2>1 DEF Spills
<1>8. GivenOK'
  <2> SUFFICES ASSUME NEW q \in QInos, given'[q] # Absent
               PROVE  FromSpill(q)' \/ FromNamespace(q)'
    BY DEF GivenOK
  <2>1. CASE q = q0
    BY <2>1, <1>0, <1>1, <1>2, <1>n
       DEF FromNamespace, NewNamespace, IInv, TypeOK, Passthru
  <2>2. CASE q # q0
    <3>1. given'[q] = given[q] BY <2>2, <1>0 DEF NewNamespace, IInv, TypeOK
    <3>2. FromSpill(q) \/ FromNamespace(q) BY <3>1 DEF IInv, GivenOK
    <3>3. q[1] \in Namespaces BY DEF QInos
    <3>4. namespaceMap[q[1]] # Absent => namespaceMap'[q[1]] = namespaceMap[q[1]]
      BY <1>n, <3>3 DEF NewNamespace
    <3> QED BY <3>1, <3>2, <3>4 DEF FromSpill, FromNamespace, NewNamespace
  <2> QED BY <2>1, <2>2
<1> QED BY <1>4, <1>5, <1>6, <1>7, <1>8 DEF IInv

LEMMA NextSpillInoStep == IInv /\ NextSpillIno => IInv'
<1> SUFFICES ASSUME IInv, NextSpillIno PROVE IInv' OBVIOUS
<1> USE InoMapAssumption DEF NextSpillIno
<1>1. TypeOK' BY DEF IInv, TypeOK
<1>2. NamespacesOK' BY DEF IInv, NamespacesOK
<1>3. SpillOK'
  <2>1. \A q \in QInos : spillMap[q] # spillNext
    BY SMTT(30) DEF IInv, TypeOK, SpillOK
  <2> QED BY <2>1 DEF IInv, SpillOK, TypeOK
<1>4. SpilledStays' /\ GivenOK'
  BY DEF IInv, SpilledStays, Spills, GivenOK, FromSpill, FromNamespace
<1> QED BY <1>1, <1>2, <1>3, <1>4 DEF IInv

LEMMA NextOK == IInv /\ [Next]_vars => IInv'
<1> SUFFICES ASSUME IInv, [Next]_vars PROVE IInv' OBVIOUS
<1>1. ASSUME NEW ns \in Namespaces, NEW ino \in Inos, Translate(ns, ino) PROVE IInv'
  BY <1>1, SpillStep, UseNamespaceStep, NewNamespaceStep DEF Translate
<1>2. CASE NextSpillIno BY <1>2, NextSpillInoStep
<1>3. CASE UNCHANGED vars
  BY <1>3 DEF vars, IInv, TypeOK, NamespacesOK, SpillOK, SpilledStays, Spills,
              GivenOK, FromSpill, FromNamespace
<1> QED BY <1>1, <1>2, <1>3 DEF Next


----------------------------------------------------------------------------

LEMMA IInvInvariant == Spec => []IInv
BY InitOK, NextOK, PTL DEF Spec

\* The maps, counters and results of InoMap keep their types.
THEOREM TypeCorrect == Spec => []TypeOK
<1>1. IInv => TypeOK BY DEF IInv
<1> QED BY <1>1, IInvInvariant, PTL

\* Translate never gives two backing files the same inode number, and never a
\* number that NextSpillIno gave to a virtual file.
THEOREM TranslateUnique == Spec => []Unique
<1>1. IInv => Unique
  <2> SUFFICES ASSUME IInv PROVE Unique OBVIOUS
  <2> USE DEF IInv
  <2>1. ASSUME NEW q \in QInos
        PROVE  q[1] \in Namespaces /\ q[2] \in Nat /\ q = << q[1], q[2] >>
    <3>1. PICK n \in Namespaces, i \in Inos : q = << n, i >> BY DEF QInos
    <3> QED BY <3>1, InoMapAssumption
  <2>2. ASSUME NEW q \in QInos, FromNamespace(q)
        PROVE  namespaceMap[q[1]] \in Nat /\ given[q] < SpillSpaceStart
    <3>1. namespaceMap[q[1]] \in Nat /\ namespaceMap[q[1]] < MaxNamespaceId
      BY <2>1, <2>2, InoMapAssumption DEF FromNamespace, TypeOK, NamespacesOK
    <3> QED BY <3>1, <2>1, <2>2, PassthruBelowSpill DEF FromNamespace
  <2>3. ASSUME NEW q \in QInos, FromSpill(q)
        PROVE  given[q] \in Nat /\ given[q] >= SpillSpaceStart /\ given[q] \notin unmapped
    BY <2>3 DEF FromSpill, SpillOK, TypeOK
  <2>4. ASSUME NEW p \in QInos, NEW q \in QInos, given[p] # Absent, given[p] = given[q]
        PROVE  p = q
    <3>1. (FromSpill(p) \/ FromNamespace(p)) /\ (FromSpill(q) \/ FromNamespace(q))
      BY <2>4 DEF GivenOK
    <3>2. CASE FromSpill(p) /\ FromSpill(q)
      BY Zenon, <3>2, <2>4 DEF FromSpill, SpillOK
    <3>3. CASE FromNamespace(p) /\ FromNamespace(q)
      <4>1. namespaceMap[p[1]] = namespaceMap[q[1]] /\ p[2] = q[2]
        <5>1. namespaceMap[p[1]] \in Nat /\ namespaceMap[q[1]] \in Nat BY <3>3, <2>2
        <5>2. p[2] \in Nat /\ q[2] \in Nat BY <2>1
        <5>3. Passthru(namespaceMap[p[1]], p[2]) = Passthru(namespaceMap[q[1]], q[2])
          BY <3>3, <2>4 DEF FromNamespace
        <5>4. p[2] < PassthruSpace /\ q[2] < PassthruSpace BY <3>3 DEF FromNamespace
        <5> QED BY SMTT(30), <5>1, <5>2, <5>3, <5>4, PassthruInjective
      <4> QED BY <4>1, <3>3, <2>1 DEF FromNamespace, NamespacesOK
    <3>4. CASE FromSpill(p) /\ FromNamespace(q)
      BY <3>4, <2>2, <2>3, <2>4, InoMapAssumption
    <3>5. CASE FromNamespace(p) /\ FromSpill(q)
      BY <3>5, <2>2, <2>3, <2>4, InoMapAssumption
    <3> QED BY <3>1, <3>2, <3>3, <3>4, <3>5
  <2>5. ASSUME NEW q \in QInos, given[q] \in unmapped PROVE FALSE
    <3>1. given[q] # Absent /\ given[q] >= SpillSpaceStart
      BY Zenon, <2>5, InoMapAssumption DEF SpillOK, TypeOK
    <3>2. CASE FromSpill(q) BY <3>2, <2>3, <2>5
    <3>3. CASE FromNamespace(q)
      BY <3>1, <3>3, <2>2, <2>5, InoMapAssumption DEF TypeOK
    <3> QED BY <3>1, <3>2, <3>3 DEF GivenOK
  <2> QED BY <2>4, <2>5 DEF Unique
<1> QED BY <1>1, IInvInvariant, PTL

\* A backing file keeps its inode number for the life of the mount.
THEOREM TranslateStable == Spec => Stable
<1>1. ASSUME IInv, [Next]_vars, NEW q \in QInos, given[q] # Absent
      PROVE  given'[q] = given[q]
  <2>1. FromSpill(q) \/ FromNamespace(q) BY <1>1 DEF IInv, GivenOK
  <2>2. ASSUME NEW ns \in Namespaces, NEW ino \in Inos, Translate(ns, ino)
        PROVE  given'[q] = given[q]
    <3>0. CASE q # << ns, ino >>
      BY <3>0, <2>2, <1>1 DEF Translate, spill, UseNamespace, NewNamespace, IInv, TypeOK
    <3> SUFFICES ASSUME q = << ns, ino >> PROVE given'[q] = given[q] BY <3>0
    <3>1. q[1] = ns /\ q[2] = ino OBVIOUS
    <3>2. CASE Spills(ns, ino)
      <4>1. ino \in Nat /\ PassthruSpace \in Nat BY InoMapAssumption
      <4>2. ~FromNamespace(q) BY <3>1, <3>2, <4>1 DEF FromNamespace, Spills
      <4>3. FromSpill(q) BY <2>1, <4>2
      <4> QED BY <4>3, <3>2, <2>2, <1>1 DEF FromSpill, Translate, spill, IInv, TypeOK
    <3>3. CASE ~Spills(ns, ino)
      <4>1. FromNamespace(q)
        BY Zenon, <3>1, <3>3, <2>1, <1>1 DEF IInv, SpilledStays, FromSpill
      <4>2. UseNamespace(ns, ino)
        BY <4>1, <3>1, <3>3, <2>2 DEF FromNamespace, Translate, NewNamespace
      <4> QED BY <4>1, <4>2, <3>1, <1>1 DEF FromNamespace, UseNamespace, IInv, TypeOK
    <3> QED BY <3>2, <3>3
  <2>3. CASE NextSpillIno BY <2>3 DEF NextSpillIno
  <2>4. CASE UNCHANGED vars BY <2>4 DEF vars
  <2> QED BY <1>1, <2>2, <2>3, <2>4 DEF Next
<1>2. IInv /\ [Next]_vars => [\A q \in QInos : given[q] # Absent => given'[q] = given[q]]_vars
  BY <1>1
<1> QED BY <1>2, IInvInvariant, PTL DEF Spec, Stable

\* Files of the root device show their own inode numbers.
THEOREM RootNumbersPassThrough == Spec => []RootPassesThrough
<1>1. IInv => RootPassesThrough
  <2> SUFFICES ASSUME IInv, NEW q \in QInos, q[1] = RootNamespace,
                      q[2] < PassthruSpace, given[q] # Absent
               PROVE  given[q] = q[2]
    BY DEF RootPassesThrough
  <2>1. q[1] \in Namespaces /\ q[2] \in Nat BY Zenon, InoMapAssumption DEF QInos
  <2>2. namespaceMap[q[1]] = 0 /\ Absent # 0
    BY <2>1, InoMapAssumption DEF IInv, NamespacesOK
  <2>3. ~FromSpill(q)
    BY <2>1, <2>2, InoMapAssumption DEF IInv, SpilledStays, Spills, FromSpill
  <2> QED BY <2>1, <2>2, <2>3, InoMapAssumption
          DEF IInv, GivenOK, FromNamespace, Passthru
<1> QED BY <1>1, IInvInvariant, PTL
----------------------------------------------------------------------------
(* IdleMonitor                                                             *)

\* A ghost clock has reached d; the clocks stop at the -idle duration.
Reached(clock, d) == clock >= idleTimeout \/ clock >= d

IdleTypeOK ==
    /\ I!IdleAssumption
    /\ idleTimeout \in IdleTimeouts /\ open \in Nat /\ idleCount \in Nat
    /\ IsIdle \in BOOLEAN /\ isIdle \in BOOLEAN
    /\ quiet \in Nat /\ sinceOpen \in Nat /\ quietAtCheck \in Nat
    /\ monitorPc \in {"sleep", "count", "unmount"}
    /\ phase \in 0 .. I!sleepNs

\* As long as the marker has not been reset, the file system has been quiet for the
\* checks that were counted and the time since.
MonitorOK ==
    LET counted == idleCount * I!sleepNs IN
    /\ monitorPc = "sleep" /\ IsIdle =>
          Reached(quiet, counted + phase) /\ Reached(sinceOpen, counted + phase)
    /\ monitorPc = "count" /\ isIdle =>
          /\ Reached(quietAtCheck, counted + I!sleepNs) /\ Reached(sinceOpen, counted + I!sleepNs)
          /\ IsIdle => Reached(quiet, counted + I!sleepNs)
    /\ monitorPc = "unmount" =>
          /\ idleCount > 0 /\ idleCount % I!timeoutCycles = 0
          /\ Reached(quietAtCheck, counted) /\ Reached(sinceOpen, counted)
          /\ IsIdle => Reached(quiet, counted)

IdleInv == IdleTypeOK /\ MonitorOK

\* Rounding up: n sleeps of s units are no shorter than the duration.
LEMMA RoundsUp ==
    ASSUME NEW d \in Nat \ {0}, NEW s \in Nat \ {0}
    PROVE  (d + s - 1) \div s \in Nat \ {0} /\ ((d + s - 1) \div s) * s >= d
<1> DEFINE x == d + s - 1
           n == x \div s
<1>1. x \in Nat /\ x >= s OBVIOUS
<1>2. n \in Int /\ x = s * n + (x % s) /\ x % s \in 0 .. s - 1 BY <1>1
<1>3. s * n >= d BY <1>2
<1>4. n > 0
  <2>1. ASSUME n <= 0 PROVE s * n <= 0 BY <2>1, <1>2, SMTT(30)
  <2> QED BY <1>2, <1>3, <2>1
<1> QED BY <1>2, <1>3, <1>4

\* The monitor sleeps, and its cycles add up to the -idle duration.
LEMMA IdleFacts ==
    ASSUME I!IdleAssumption, idleTimeout \in IdleTimeouts
    PROVE  /\ idleTimeout \in Nat /\ I!sleepNs \in Nat \ {0}
           /\ I!timeoutCycles \in Nat \ {0} /\ I!timeoutCycles * I!sleepNs >= idleTimeout
<1>1. idleTimeout \in Nat /\ idleTimeout >= 4 /\ TwoMinutes \in Nat /\ TwoMinutes >= 1
  BY DEF I!IdleAssumption
<1>2. idleTimeout \div 4 \in Nat /\ idleTimeout \div 4 >= 1 BY <1>1
<1>3. I!sleepNs \in Nat \ {0}
  BY <1>1, <1>2 DEF I!sleepNs, I!MinUint64, I!checksDuringTimeoutPeriod
<1> QED BY <1>1, <1>3, RoundsUp DEF I!timeoutCycles

LEMMA LaterReaches ==
    ASSUME idleTimeout \in Nat, NEW clock \in Nat, NEW d \in Nat
    PROVE  /\ I!Later(clock) \in Nat
           /\ Reached(clock, d) => Reached(I!Later(clock), d + 1)
BY DEF I!Later, Reached

LEMMA IdleInitOK == I!IdleAssumption /\ I!Init => IdleInv
<1> SUFFICES ASSUME I!IdleAssumption, I!Init PROVE IdleInv OBVIOUS
<1>1. I!sleepNs \in Nat BY IdleFacts DEF I!Init
<1>2. IsIdle \in BOOLEAN /\ isIdle \in BOOLEAN BY Zenon DEF I!Init
<1>3. IdleTypeOK BY <1>1, <1>2 DEF I!Init, IdleTypeOK
<1>4. MonitorOK BY DEF I!Init, MonitorOK
<1> QED BY <1>3, <1>4 DEF IdleInv

\* Requests come in at any time.
LEMMA RequestOK ==
    ASSUME IdleInv, I!NamedOp \/ I!Open \/ I!Release \/ I!ChangeDir
    PROVE  IdleInv'
<1>1. UNCHANGED << idleTimeout, monitorPc, phase, isIdle, idleCount, quietAtCheck, sinceOpen >>
  BY DEF I!NamedOp, I!Open, I!Release, I!ChangeDir, I!monitor
<1>2. open' \in Nat
  BY DEF I!NamedOp, I!Open, I!Release, I!ChangeDir, IdleInv, IdleTypeOK
<1>3. (IsIdle' = FALSE /\ quiet' = 0) \/ UNCHANGED << IsIdle, quiet >>
  BY DEF I!NamedOp, I!Open, I!Release, I!ChangeDir
<1>4. I!sleepNs' = I!sleepNs /\ I!timeoutCycles' = I!timeoutCycles
  BY <1>1 DEF I!sleepNs, I!timeoutCycles
<1>5. IsIdle' \in BOOLEAN BY Zenon, <1>3 DEF IdleInv, IdleTypeOK
<1>6. quiet' \in Nat BY <1>3 DEF IdleInv, IdleTypeOK
<1>7. IdleTypeOK' BY <1>1, <1>2, <1>4, <1>5, <1>6 DEF IdleInv, IdleTypeOK, I!IdleAssumption
<1>8. MonitorOK' BY <1>1, <1>3, <1>4 DEF IdleInv, MonitorOK, Reached
<1> QED BY <1>7, <1>8 DEF IdleInv

LEMMA TickOK == ASSUME IdleInv, I!Tick PROVE IdleInv'
<1>1. IdleTypeOK /\ MonitorOK BY DEF IdleInv
<1>2. idleTimeout \in Nat /\ I!sleepNs \in Nat BY <1>1, IdleFacts DEF IdleTypeOK
<1>3. I!sleepNs' = I!sleepNs BY DEF I!Tick, I!sleepNs
<1>4. idleCount * I!sleepNs \in Nat BY <1>1, <1>2 DEF IdleTypeOK
<1>5. quiet' \in Nat /\ sinceOpen' \in Nat
  BY <1>1, <1>2, LaterReaches DEF I!Tick, IdleTypeOK
<1>6. IdleTypeOK'
  BY <1>1, <1>2, <1>3, <1>5 DEF I!Tick, IdleTypeOK, I!IdleAssumption
<1>7. ASSUME IsIdle'
      PROVE  /\ Reached(quiet, idleCount * I!sleepNs + phase)'
             /\ Reached(sinceOpen, idleCount * I!sleepNs + phase)'
  <2> DEFINE d == idleCount * I!sleepNs + phase
  <2>1. d \in Nat /\ (idleCount * I!sleepNs + phase)' = d + 1
    BY <1>1, <1>2, <1>3, <1>4 DEF I!Tick, IdleTypeOK
  <2>2. Reached(quiet, d) /\ Reached(sinceOpen, d) BY <1>1, <1>7 DEF MonitorOK, I!Tick
  <2> HIDE DEF d
  <2>3. Reached(I!Later(quiet), d + 1) /\ Reached(I!Later(sinceOpen), d + 1)
    BY <1>1, <1>2, <2>1, <2>2, LaterReaches DEF IdleTypeOK
  <2> QED BY <2>1, <2>3 DEF I!Tick, Reached
<1>8. MonitorOK' BY <1>7 DEF I!Tick, MonitorOK
<1> QED BY <1>6, <1>8 DEF IdleInv

LEMMA CheckFlagOK == ASSUME IdleInv, I!CheckFlag PROVE IdleInv'
<1>1. I!sleepNs' = I!sleepNs BY DEF I!CheckFlag, I!sleepNs
<1>2. IdleTypeOK' BY <1>1 DEF I!CheckFlag, IdleInv, IdleTypeOK, I!IdleAssumption
<1>3. MonitorOK' BY <1>1 DEF I!CheckFlag, IdleInv, IdleTypeOK, MonitorOK, Reached
<1> QED BY <1>2, <1>3 DEF IdleInv

LEMMA CountOK == ASSUME IdleInv, I!CountOpenFiles PROVE IdleInv'
<1>1. IdleTypeOK /\ MonitorOK BY DEF IdleInv
<1>2. idleTimeout \in Nat /\ I!sleepNs \in Nat BY <1>1, IdleFacts DEF IdleTypeOK
<1>3. I!sleepNs' = I!sleepNs /\ I!timeoutCycles' = I!timeoutCycles
  BY DEF I!CountOpenFiles, I!sleepNs, I!timeoutCycles
<1>4. IdleTypeOK'
  BY <1>1, <1>2, <1>3 DEF I!CountOpenFiles, IdleTypeOK, I!IdleAssumption
<1>5. CASE I!NotIdle
  <2>1. idleCount' = 0 /\ monitorPc' = "sleep" /\ phase' = 0
    BY <1>5 DEF I!CountOpenFiles
  <2>2. (idleCount * I!sleepNs + phase)' = 0 BY <1>2, <1>3, <2>1
  <2>3. MonitorOK' BY <1>4, <2>1, <2>2 DEF MonitorOK, Reached, IdleTypeOK
  <2> QED BY <1>4, <2>3 DEF IdleInv
<1>6. CASE ~I!NotIdle
  <2> DEFINE d == idleCount * I!sleepNs + I!sleepNs
  <2>1. isIdle = TRUE /\ idleCount' = idleCount + 1 /\ sinceOpen' = sinceOpen
    BY <1>1, <1>6 DEF I!CountOpenFiles, I!NotIdle, IdleTypeOK
  <2>2. d \in Nat /\ (idleCount * I!sleepNs)' = d
    BY <1>1, <1>2, <1>3, <2>1 DEF IdleTypeOK
  <2>3. /\ Reached(quietAtCheck, d) /\ Reached(sinceOpen, d)
        /\ IsIdle => Reached(quiet, d)
    BY <1>1, <2>1 DEF MonitorOK, I!CountOpenFiles
  <2> HIDE DEF d
  <2>4. /\ quietAtCheck' >= idleTimeout' \/ quietAtCheck' >= d
        /\ sinceOpen' >= idleTimeout' \/ sinceOpen' >= d
        /\ IsIdle' => quiet' >= idleTimeout' \/ quiet' >= d
    BY <2>1, <2>3 DEF I!CountOpenFiles, Reached
  <2>5. MonitorOK'
    BY <1>3, <2>1, <2>2, <2>4 DEF I!CountOpenFiles, MonitorOK, Reached
  <2> QED BY <1>4, <2>5 DEF IdleInv
<1> QED BY <1>5, <1>6

LEMMA UnmountOK == ASSUME IdleInv, I!Unmount PROVE IdleInv'
<1>1. IdleTypeOK /\ MonitorOK BY DEF IdleInv
<1>2. idleTimeout \in Nat /\ I!sleepNs \in Nat BY <1>1, IdleFacts DEF IdleTypeOK
<1>3. I!sleepNs' = I!sleepNs BY DEF I!Unmount, I!sleepNs
<1>4. monitorPc' = "sleep" /\ phase' = 0 /\ (idleCount' = 0 \/ idleCount' = idleCount)
  BY Zenon DEF I!Unmount
<1>5. IdleTypeOK'
  <2>1. idleCount' \in Nat /\ phase' \in 0 .. I!sleepNs BY <1>1, <1>2, <1>4 DEF IdleTypeOK
  <2> QED BY <1>1, <1>3, <2>1 DEF I!Unmount, IdleTypeOK, I!IdleAssumption
<1>6. idleCount * I!sleepNs + 0 = idleCount * I!sleepNs /\ 0 * I!sleepNs + 0 = 0
  BY <1>1, <1>2 DEF IdleTypeOK
<1>7. idleCount' = 0 => MonitorOK'
  BY SMTT(30), <1>3, <1>4, <1>5, <1>6 DEF MonitorOK, IdleTypeOK, Reached
<1>8. idleCount' = idleCount => MonitorOK'
  BY <1>1, <1>3, <1>4, <1>6 DEF I!Unmount, MonitorOK, Reached
<1> QED BY <1>4, <1>5, <1>7, <1>8 DEF IdleInv

LEMMA IdleStutterOK == IdleInv /\ UNCHANGED I!vars => IdleInv'
<1> SUFFICES ASSUME IdleInv, UNCHANGED I!vars PROVE IdleInv' OBVIOUS
<1>1. I!sleepNs' = I!sleepNs /\ I!timeoutCycles' = I!timeoutCycles
  BY DEF I!vars, I!sleepNs, I!timeoutCycles
<1> QED BY <1>1 DEF I!vars, I!monitor, IdleInv, IdleTypeOK, MonitorOK, Reached, I!IdleAssumption

LEMMA IdleNextOK == IdleInv /\ [I!Next]_I!vars => IdleInv'
BY RequestOK, TickOK, CheckFlagOK, CountOK, UnmountOK, IdleStutterOK DEF I!Next

\* A multiple of n that is not 0 is n or more, so that many sleeps take as long.
LEMMA WholeCycles ==
    ASSUME NEW k \in Nat \ {0}, NEW n \in Nat \ {0}, k % n = 0, NEW s \in Nat
    PROVE  k * s >= n * s
<1>1. k >= n
  <2>1. ASSUME k < n PROVE k % n = k BY <2>1
  <2> QED BY <2>1
<1> DEFINE j == k - n
<1>2. j \in Nat /\ k = n + j BY <1>1
<1>3. j * s \in Nat BY <1>2
<1>4. (n + j) * s = n * s + j * s BY <1>2
<1> QED BY <1>2, <1>3, <1>4

\* For every -idle duration of 4 units or more, whatever requests come in between any two
\* steps of the monitor: it decides to unmount only a file system that has been quiet,
\* as its checks see it, for all that time (idleMonitor).
THEOREM IdleMonitorWaits == I!IdleAssumption /\ I!Spec => []UnmountsOnlyWhenQuiet
<1>1. ASSUME IdleInv, monitorPc = "unmount"
      PROVE  quietAtCheck >= idleTimeout /\ sinceOpen >= idleTimeout
  <2>1. /\ idleTimeout \in Nat /\ I!sleepNs \in Nat
        /\ I!timeoutCycles \in Nat \ {0} /\ I!timeoutCycles * I!sleepNs >= idleTimeout
    BY <1>1, IdleFacts DEF IdleInv, IdleTypeOK
  <2>2. idleCount \in Nat \ {0} /\ idleCount % I!timeoutCycles = 0
    BY <1>1 DEF IdleInv, IdleTypeOK, MonitorOK
  <2>3. idleCount * I!sleepNs >= I!timeoutCycles * I!sleepNs BY <2>1, <2>2, WholeCycles
  <2>4. idleCount * I!sleepNs \in Nat /\ I!timeoutCycles * I!sleepNs \in Nat BY <2>1, <2>2
  <2>5. Reached(quietAtCheck, idleCount * I!sleepNs) /\ Reached(sinceOpen, idleCount * I!sleepNs)
    BY <1>1 DEF IdleInv, MonitorOK
  <2>6. quietAtCheck \in Nat /\ sinceOpen \in Nat BY <1>1 DEF IdleInv, IdleTypeOK
  <2> QED BY <2>1, <2>3, <2>4, <2>5, <2>6 DEF Reached
<1>2. IdleInv => UnmountsOnlyWhenQuiet
  BY <1>1 DEF UnmountsOnlyWhenQuiet, I!UnmountsOnlyWhenQuiet
<1> QED BY <1>2, IdleInitOK, IdleNextOK, PTL DEF I!Spec
=============================================================================
