------------------------ MODULE ProjectReadersProofs ------------------------
(***************************************************************************)
(* Proofs about the two readers of files that are being edited.            *)
(*                                                                         *)
(* Both rest on two facts about the editor: the versions of a block only   *)
(* grow, and whatever it writes carries the time of the write.  A reader   *)
(* that sees one version twice knows that the block did not change between;*)
(* a reader that knows a change time to be past knows that every later     *)
(* write shows.                                                            *)
(***************************************************************************)
EXTENDS ProjectReaders, TLAPS

Offsets == 1 .. Blocks
Contents == [Offsets -> Nat]
Trees == [Files -> Contents]
Stats == Inodes \X Nat

\* What a history can order: no block of b is older than that of a.
Older(a, b) == \A o \in Offsets : a[o] <= b[o]

FilesOK ==
    /\ path \in [Files -> Inodes] /\ data \in [Inodes -> Contents] /\ stamp \in [Inodes -> Nat]
    /\ now \in Nat /\ edits \in 0 .. MaxEdits
    /\ \A f \in Files : path[f] = f \/ path[f] \in 1 .. edits
    /\ \A i \in Inodes, o \in Offsets : data[i][o] <= edits

Hashings == {"idle", "looked", "open", "stream", "reopen", "restream"}

Calls ==
    [target : Files \cup {Nothing}, before : Stats \cup {Nothing}, reusable : BOOLEAN,
     inode : Inodes \cup {Nothing}, read : 0 .. Blocks, body : Contents]

AuditOK ==
    /\ hashing \in Hashings
    /\ call \in Calls
    /\ hashing # "idle" => call.target \in Files /\ call.before \in Stats
    /\ hashing \in {"stream", "restream"} => call.inode \in Inodes
    /\ first \in Contents /\ seen \in SUBSET Contents

\* An entry of the cache was made of a change time that is past, so it is
\* what its inode holds until the stat changes.
Entry(k) ==
    /\ k \in Files \X Stats
    /\ k[2][2] < now
    /\ stamp[k[2][1]] = k[2][2] => digests[k] = data[k[2][1]]

CacheOK == \A k \in DOMAIN digests : Entry(k)

\* What the blocks read so far say of the inode they come from: they are not
\* newer, and when the stat shows every write they are the same.
StreamOK ==
    hashing \in {"stream", "restream"} =>
        \A o \in 1 .. call.read :
            /\ call.body[o] <= data[call.inode][o]
            /\ call.reusable /\ Stat(call.inode) = call.before => call.body[o] = data[call.inode][o]

\* The content the file had between two readings lies between the two.
Between(m) ==
    /\ Older(first, m) /\ Older(m, data[call.before[1]])
    /\ hashing = "restream" /\ call.inode = call.before[1] =>
          \A o \in 1 .. call.read : m[o] <= call.body[o]

SeenOK ==
    /\ hashing # "idle" => Body(call.target) \in seen
    /\ hashing = "looked" /\ Cached => digests[Key] \in seen
    /\ hashing \in {"open", "stream", "reopen", "restream"} /\ call.reusable => call.before[2] < now
    /\ hashing \in {"reopen", "restream"} => \E m \in seen : Between(m)
    /\ DigestWasContent

AuditInv == FilesOK /\ AuditOK /\ CacheOK /\ StreamOK /\ SeenOK

-----------------------------------------------------------------------------
(* The editor *)

LEMMA BlocksFacts ==
    /\ Blocks \in Nat /\ Blocks >= 1 /\ MaxEdits \in Nat
    /\ \A f \in Files : f \notin Nat
BY FilesAssumption

\* The locals, and what an assignment to some of them leaves.
LEMMA CallFields ==
    ASSUME NEW c \in Calls
    PROVE  /\ c.target \in Files \cup {Nothing} /\ c.before \in Stats \cup {Nothing}
           /\ c.reusable \in BOOLEAN /\ c.inode \in Inodes \cup {Nothing}
           /\ c.read \in 0 .. Blocks /\ c.body \in Contents
BY DEF Calls

LEMMA SetReusable ==
    ASSUME NEW c \in Calls, NEW x \in BOOLEAN, NEW d, d = [c EXCEPT !.reusable = x]
    PROVE  /\ d \in Calls /\ d.reusable = x /\ d.target = c.target /\ d.before = c.before
           /\ d.inode = c.inode /\ d.read = c.read /\ d.body = c.body
BY DEF Calls

\* No block gets older, and a write shows the time of now.
Grows ==
    /\ now <= now' /\ edits <= edits'
    /\ \A i \in Inodes : Older(data[i], data'[i])
    /\ \A i \in Inodes : (data'[i] = data[i] /\ stamp'[i] = stamp[i]) \/ stamp'[i] = now

\* A write to inode i whose new content is d.
LEMMA WriteGrows ==
    ASSUME FilesOK, NEW i \in Inodes, NEW d \in Contents, edits < MaxEdits,
           data' = [data EXCEPT ![i] = d], stamp' = [stamp EXCEPT ![i] = now],
           edits' = edits + 1, now' = now,
           path' \in [Files -> Inodes], \A g \in Files : path'[g] = g \/ path'[g] \in 1 .. edits',
           \A o \in Offsets : d[o] = data[i][o] \/ d[o] = edits + 1
    PROVE  FilesOK' /\ Grows
<1> USE BlocksFacts
<1>1. /\ data' \in [Inodes -> Contents] /\ stamp' \in [Inodes -> Nat] /\ edits' \in 0 .. MaxEdits
      /\ data \in [Inodes -> Contents] /\ stamp \in [Inodes -> Nat] /\ edits \in Nat /\ now \in Nat
  BY DEF FilesOK
<1>2. \A j \in Inodes \ {i} : data'[j] = data[j] /\ stamp'[j] = stamp[j]
  BY <1>1
<1>3. data'[i] = d /\ stamp'[i] = now
  BY <1>1
<1>4. \A j \in Inodes, o \in Offsets : data[j][o] \in Nat /\ data[j][o] <= edits
  BY <1>1 DEF FilesOK, Contents
<1>5. \A j \in Inodes, o \in Offsets : data'[j][o] <= edits' /\ data[j][o] <= data'[j][o]
  <2> TAKE j \in Inodes, o \in Offsets
  <2>1. data[j][o] \in Nat /\ data[j][o] <= edits /\ edits \in Nat /\ edits' = edits + 1
    BY <1>1, <1>4
  <2>2. data'[j][o] = data[j][o] \/ data'[j][o] = edits + 1
    BY <1>2, <1>3
  <2> QED BY <2>1, <2>2
<1>6. FilesOK'
  BY <1>1, <1>5 DEF FilesOK, Inodes
<1> QED BY <1>1, <1>2, <1>3, <1>5, <1>6 DEF Grows, Older

LEMMA EditorStep ==
    ASSUME FilesOK, Environment
    PROVE  FilesOK' /\ Grows
<1> USE BlocksFacts
<1>1. CASE Tick
  BY <1>1 DEF Tick, FilesOK, Grows, Older, Contents
<1>2. ASSUME NEW f \in Files, Replace(f) PROVE FilesOK' /\ Grows
  <2> DEFINE d == [b \in 1 .. Blocks |-> edits + 1]
  <2>1. edits + 1 \in Inodes /\ edits + 1 \in Nat /\ d \in Contents /\ \A o \in Offsets : d[o] = edits + 1
    BY <1>2 DEF Replace, FilesOK, Inodes, Contents, Offsets
  <2>2. path' \in [Files -> Inodes] /\ \A g \in Files : path'[g] = g \/ path'[g] \in 1 .. edits'
    BY <1>2, <2>1 DEF Replace, FilesOK
  <2>3. /\ data' = [data EXCEPT ![edits + 1] = d] /\ stamp' = [stamp EXCEPT ![edits + 1] = now]
        /\ edits < MaxEdits /\ edits' = edits + 1 /\ now' = now
    BY <1>2 DEF Replace
  <2> HIDE DEF d
  <2> QED BY <2>1, <2>2, <2>3, WriteGrows
<1>3. ASSUME NEW f \in Files, NEW b \in Offsets, Edit(f, b) PROVE FilesOK' /\ Grows
  <2> DEFINE d == [data[path[f]] EXCEPT ![b] = edits + 1]
  <2>1. path[f] \in Inodes /\ data[path[f]] \in Contents /\ edits + 1 \in Nat
    BY DEF FilesOK
  <2>2. d \in Contents /\ \A o \in Offsets : d[o] = data[path[f]][o] \/ d[o] = edits + 1
    BY <2>1 DEF Contents
  <2>3. path' \in [Files -> Inodes] /\ \A g \in Files : path'[g] = g \/ path'[g] \in 1 .. edits'
    BY <1>3 DEF Edit, FilesOK
  <2>4. /\ data' = [data EXCEPT ![path[f]] = d] /\ stamp' = [stamp EXCEPT ![path[f]] = now]
        /\ edits < MaxEdits /\ edits' = edits + 1 /\ now' = now
    BY <1>3, <2>1 DEF Edit, FilesOK
  <2> HIDE DEF d
  <2> QED BY <2>1, <2>2, <2>3, <2>4, WriteGrows
<1> QED BY <1>1, <1>2, <1>3 DEF Environment, Offsets

\* Under an editor's step the audit keeps what it knows, and the witness of
\* its history what the file holds.
LEMMA EditorKeepsAudit ==
    ASSUME AuditInv, Environment, UNCHANGED <<hashing, locals, digests, answer>>,
           hashing # "idle" => Witness, hashing = "idle" => seen' = seen
    PROVE  AuditInv'
<1> USE DEF AuditInv, locals
<1>1. /\ FilesOK' /\ now <= now' /\ now \in Nat /\ now' \in Nat
      /\ \A i \in Inodes : Older(data[i], data'[i])
      /\ \A i \in Inodes : (data'[i] = data[i] /\ stamp'[i] = stamp[i]) \/ stamp'[i] = now
  BY EditorStep DEF FilesOK, Grows
<1>2. data \in [Inodes -> Contents] /\ data' \in [Inodes -> Contents] /\ path' \in [Files -> Inodes]
      /\ stamp \in [Inodes -> Nat]
  BY <1>1 DEF FilesOK
<1>3. seen \subseteq seen' /\ (hashing # "idle" => Body(call.target)' \in seen')
  BY DEF Witness, Body
<1>4. AuditOK'
  <2>1. hashing # "idle" => seen' \in SUBSET Contents
    BY <1>2 DEF AuditOK, Witness
  <2> QED BY <2>1 DEF AuditOK
<1>5. CacheOK'
  <2>1. ASSUME NEW k \in DOMAIN digests PROVE Entry(k)'
    <3>1. k \in Files \X Stats /\ k[2][1] \in Inodes /\ k[2][2] \in Nat /\ k[2][2] < now
      BY DEF CacheOK, Entry, Stats
    <3>2. stamp'[k[2][1]] = k[2][2] => data'[k[2][1]] = data[k[2][1]] /\ stamp[k[2][1]] = k[2][2]
      BY <1>1, <3>1
    <3> QED BY <1>1, <3>1, <3>2 DEF CacheOK, Entry
  <2> QED BY <2>1 DEF CacheOK
<1>6. StreamOK'
  <2> SUFFICES ASSUME hashing \in {"stream", "restream"}, NEW o \in 1 .. call.read
               PROVE  /\ call.body[o] <= data'[call.inode][o]
                      /\ call.reusable /\ Stat(call.inode)' = call.before => call.body[o] = data'[call.inode][o]
    BY DEF StreamOK, Stat
  <2>1. call.inode \in Inodes /\ o \in Offsets /\ call.body[o] \in Nat /\ call.before \in Stats
    BY BlocksFacts, CallFields DEF AuditOK, Contents, Offsets
  <2>2. call.body[o] <= data[call.inode][o] /\ data[call.inode][o] <= data'[call.inode][o]
    BY <1>1, <2>1 DEF StreamOK, Older
  <2>3. data[call.inode][o] \in Nat /\ data'[call.inode][o] \in Nat
    BY <1>2, <2>1 DEF Contents
  <2>4. ASSUME call.reusable, Stat(call.inode)' = call.before PROVE call.body[o] = data'[call.inode][o]
    <3>1. call.before[2] < now /\ stamp'[call.inode] = call.before[2] /\ call.before[2] \in Nat
      BY <2>1, <2>4 DEF SeenOK, Stat, Stats
    <3>2. data'[call.inode] = data[call.inode] /\ stamp'[call.inode] = stamp[call.inode]
      BY <1>1, <2>1, <3>1
    <3> QED BY <2>4, <3>2 DEF StreamOK, Stat
  <2> QED BY <2>1, <2>2, <2>3, <2>4
<1>7. SeenOK'
  <2>1. hashing \in {"reopen", "restream"} => \E m \in seen' : Between(m)'
    <3> SUFFICES ASSUME hashing \in {"reopen", "restream"} PROVE \E m \in seen' : Between(m)'
      OBVIOUS
    <3>1. PICK m \in seen : Between(m)
      BY DEF SeenOK
    <3>2. call.before[1] \in Inodes /\ m \in Contents
      BY CallFields DEF AuditOK, Stats
    <3>3. Older(m, data'[call.before[1]])
      BY <1>1, <1>2, <3>1, <3>2 DEF Between, Older, Contents
    <3> QED BY <1>3, <3>1, <3>3 DEF Between
  <2>2. (hashing = "looked" /\ Cached => digests[Key] \in seen)'
    BY <1>3 DEF SeenOK, Cached, Key
  <2>3. (hashing \in {"open", "stream", "reopen", "restream"} /\ call.reusable => call.before[2] < now)'
    BY <1>1 DEF SeenOK, AuditOK, Stats
  <2> QED BY <1>3, <2>1, <2>2, <2>3 DEF SeenOK, DigestWasContent
<1> QED BY <1>1, <1>4, <1>5, <1>6, <1>7

-----------------------------------------------------------------------------
(* The audit *)

LEMMA FilesStay ==
    ASSUME UNCHANGED files
    PROVE  /\ path' = path /\ data' = data /\ stamp' = stamp /\ now' = now /\ edits' = edits
           /\ FilesOK' = FilesOK
           /\ \A f : Body(f)' = Body(f) /\ PathStat(f)' = PathStat(f)
           /\ \A j : Stat(j)' = Stat(j)
           /\ DOMAIN digests' = DOMAIN digests /\ (\A k \in DOMAIN digests : digests'[k] = digests[k])
                 => CacheOK' = CacheOK
BY DEF files, FilesOK, Body, PathStat, Stat, CacheOK, Entry, Stats

\* A key of the cache that is the current stat of its file has the file's content.
LEMMA CacheCurrent ==
    ASSUME FilesOK, CacheOK
    PROVE  CacheIsCurrent
<1> SUFFICES ASSUME NEW f \in Files, <<f, PathStat(f)>> \in DOMAIN digests
             PROVE  digests[<<f, PathStat(f)>>] = Body(f)
  BY DEF CacheIsCurrent
<1>1. Entry(<<f, PathStat(f)>>)
  BY DEF CacheOK
<1> QED BY <1>1 DEF Entry, PathStat, Stat, Body

LEMMA LookKeeps ==
    ASSUME AuditInv, NEW f \in Files, Look(f)
    PROVE  AuditInv'
<1> USE DEF AuditInv
<1>1. /\ hashing' = "looked" /\ seen' = {Body(f)} /\ answer' = Nothing
      /\ digests' = digests /\ first' = first /\ UNCHANGED files
      /\ call' = [target |-> f, before |-> PathStat(f), reusable |-> FALSE,
                  inode |-> Nothing, read |-> 0, body |-> Blank]
  BY DEF Look, NoCall
<1>2. FilesOK' /\ CacheOK' /\ Body(f)' = Body(f)
  BY <1>1, FilesStay
<1>3. PathStat(f) \in Stats /\ Body(f) \in Contents /\ Blank \in Contents
  BY DEF FilesOK, PathStat, Stat, Stats, Body, Blank, Contents, Offsets
<1>4. AuditOK'
  BY <1>1, <1>3, BlocksFacts DEF AuditOK, Calls, Hashings
<1>5. StreamOK'
  BY <1>1 DEF StreamOK
<1>6. SeenOK'
  <2>1. (hashing = "looked" /\ Cached => digests[Key] \in seen)'
    BY <1>1, CacheCurrent DEF Cached, Key, CacheIsCurrent
  <2> QED BY <1>1, <1>2, <2>1 DEF SeenOK, DigestWasContent
<1> QED BY <1>2, <1>4, <1>5, <1>6

LEMMA DecideKeeps ==
    ASSUME AuditInv, Decide
    PROVE  AuditInv'
<1> USE DEF AuditInv
<1>1. /\ hashing = "looked" /\ call' = [call EXCEPT !.reusable = Reusable]
      /\ first' = first /\ digests' = digests /\ seen' = seen /\ UNCHANGED files
      /\ \/ Cached /\ hashing' = "idle" /\ answer' = [target |-> call.target, digest |-> digests[Key]]
         \/ hashing' = "open" /\ answer' = answer
  BY DEF Decide, Return
<1>2. FilesOK' /\ CacheOK' /\ Body(call.target)' = Body(call.target)
  BY <1>1, FilesStay DEF AuditOK, Body
<1>3. call \in Calls /\ Reusable \in BOOLEAN
  BY DEF AuditOK, Reusable
<1>4. /\ call' \in Calls /\ call'.target = call.target /\ call'.before = call.before
      /\ call'.reusable = Reusable
  BY <1>1, <1>3, SetReusable
<1>5. AuditOK'
  BY <1>1, <1>4 DEF AuditOK, Hashings
<1>6. StreamOK'
  BY <1>1 DEF StreamOK
<1>7. SeenOK'
  <2>1. Reusable => call.before[2] < now
    BY <1>1, HashAssumption DEF Reusable, AuditOK, Stats, FilesOK
  <2>3. now' = now
    BY <1>1 DEF files
  <2>4. Body(call.target)' \in seen'
    BY <1>1, <1>2, <1>4 DEF SeenOK, Body
  <2>5. (hashing \in {"open", "stream", "reopen", "restream"} /\ call.reusable => call.before[2] < now)'
    BY <2>1, <1>4, <2>3
  <2>6. DigestWasContent'
    BY <1>1 DEF SeenOK, DigestWasContent
  <2> QED BY <1>1, <2>4, <2>5, <2>6 DEF SeenOK
<1> QED BY <1>2, <1>5, <1>6, <1>7

LEMMA OpenKeeps ==
    ASSUME AuditInv, Open
    PROVE  AuditInv'
<1> USE DEF AuditInv
<1>1. /\ hashing \in {"open", "reopen"} /\ call' = [call EXCEPT !.inode = path[call.target], !.read = 0]
      /\ first' = first /\ digests' = digests /\ seen' = seen /\ answer' = answer /\ UNCHANGED files
      /\ \/ hashing' = "idle"
         \/ hashing = "open" /\ hashing' = "stream"
         \/ hashing = "reopen" /\ hashing' = "restream"
  BY DEF Open, Raise
<1>2. FilesOK' /\ CacheOK' /\ path[call.target] \in Inodes /\ call \in Calls
  BY <1>1, FilesStay DEF AuditOK, FilesOK
<1>3. /\ call'.target = call.target /\ call'.before = call.before /\ call'.reusable = call.reusable
      /\ call'.read = 0 /\ call'.body = call.body /\ call'.inode = path[call.target] /\ call' \in Calls
  <2> DEFINE e == [call EXCEPT !.inode = path[call.target]]
  <2>1. call' = [e EXCEPT !.read = 0]
    BY <1>1
  <2>2. /\ e \in Calls /\ e.reusable = call.reusable /\ e.target = call.target
        /\ e.before = call.before /\ e.inode = path[call.target] /\ e.body = call.body
    BY <1>2 DEF Calls
  <2> HIDE DEF e
  <2> QED BY <2>1, <2>2, BlocksFacts DEF Calls
<1>4. AuditOK'
  BY <1>1, <1>2, <1>3 DEF AuditOK, Hashings
<1>5. StreamOK'
  BY <1>3 DEF StreamOK
<1>6. SeenOK'
  <2>1. hashing' # "idle" => Body(call.target)' \in seen'
    BY <1>1, <1>3, FilesStay DEF SeenOK, Body
  <2>2. (hashing \in {"open", "stream", "reopen", "restream"} /\ call.reusable => call.before[2] < now)'
    BY <1>1, <1>3, FilesStay DEF SeenOK
  <2>3. hashing' \in {"reopen", "restream"} => \E m \in seen' : Between(m)'
    BY <1>1, <1>3, FilesStay DEF SeenOK, Between
  <2> QED BY <1>1, <2>1, <2>2, <2>3 DEF SeenOK, DigestWasContent
<1> QED BY <1>2, <1>4, <1>5, <1>6

LEMMA StreamBlockKeeps ==
    ASSUME AuditInv, StreamBlock
    PROVE  AuditInv'
<1> USE DEF AuditInv
<1> DEFINE n == call.read + 1
           c == data[call.inode][n]
<1>1. /\ hashing \in {"stream", "restream"} /\ call.read < Blocks
      /\ call' = [call EXCEPT !.read = n, !.body[n] = c]
      /\ hashing' = hashing /\ first' = first /\ digests' = digests /\ seen' = seen /\ answer' = answer
      /\ UNCHANGED files
  BY DEF StreamBlock
<1>2. FilesOK' /\ CacheOK'
  BY <1>1, FilesStay
<1>3. /\ call.inode \in Inodes /\ n \in Offsets /\ c \in Nat /\ call.read \in Nat
      /\ call.body \in Contents /\ call \in Calls
  BY <1>1, BlocksFacts, CallFields DEF AuditOK, FilesOK, Contents, Offsets
<1>4. /\ call'.target = call.target /\ call'.before = call.before /\ call'.reusable = call.reusable
      /\ call'.read = n /\ call'.inode = call.inode /\ call'.body = [call.body EXCEPT ![n] = c]
      /\ call' \in Calls
  <2> DEFINE e == [call EXCEPT !.read = n]
             z == [call.body EXCEPT ![n] = c]
  <2>1. call' = [e EXCEPT !.body = z]
    BY <1>1, <1>3 DEF Calls
  <2>2. z \in Contents /\ n \in 0 .. Blocks
    BY <1>3, BlocksFacts DEF Contents, Offsets
  <2>3. /\ e \in Calls /\ e.reusable = call.reusable /\ e.target = call.target
        /\ e.before = call.before /\ e.inode = call.inode /\ e.read = n
    BY <1>3, <2>2 DEF Calls
  <2> HIDE DEF e, z
  <2>4. /\ call' \in Calls /\ call'.reusable = e.reusable /\ call'.target = e.target
        /\ call'.before = e.before /\ call'.inode = e.inode /\ call'.read = e.read /\ call'.body = z
    BY <2>1, <2>2, <2>3 DEF Calls
  <2> HIDE DEF n
  <2> QED BY <2>3, <2>4 DEF z
<1> HIDE DEF c
<1>5. call'.body \in Contents /\ call'.body[n] = c /\ \A o \in 1 .. call.read : call'.body[o] = call.body[o]
  BY <1>3, <1>4, BlocksFacts DEF Contents, Offsets
<1>6. AuditOK'
  BY <1>1, <1>4 DEF AuditOK
<1>7. \A o \in 1 .. n : o \in 1 .. call.read \/ o = n
  BY <1>3
<1>8. data' = data /\ Stat(call.inode)' = Stat(call.inode) /\ now' = now
  BY <1>1, <1>4, FilesStay DEF Stat
<1>9. StreamOK'
  <2> SUFFICES ASSUME NEW o \in 1 .. n
               PROVE  /\ call'.body[o] <= data[call.inode][o]
                      /\ call.reusable /\ Stat(call.inode) = call.before
                            => call'.body[o] = data[call.inode][o]
    BY <1>1, <1>4, <1>8 DEF StreamOK
  <2>1. CASE o = n
    BY <1>3, <1>5, <2>1 DEF c
  <2>2. CASE o \in 1 .. call.read
    BY <1>1, <1>5, <2>2 DEF StreamOK
  <2> QED BY <1>7, <2>1, <2>2
<1>10. SeenOK'
  <2>1. hashing = "restream" => \E m \in seen : Between(m)'
    <3> SUFFICES ASSUME hashing = "restream" PROVE \E m \in seen : Between(m)'
      OBVIOUS
    <3>1. PICK m \in seen : Between(m)
      BY DEF SeenOK
    <3>2. ASSUME call.inode = call.before[1], NEW o \in 1 .. n PROVE m[o] <= call'.body[o]
      <4>1. CASE o = n
        BY <1>3, <1>5, <3>1, <3>2, <4>1 DEF Between, Older, c
      <4>2. CASE o \in 1 .. call.read
        BY <1>5, <3>1, <3>2, <4>2 DEF Between
      <4> QED BY <1>7, <4>1, <4>2
    <3> QED BY <1>1, <1>4, <1>8, <3>1, <3>2 DEF Between
  <2>2. Body(call.target)' \in seen'
    BY <1>1, <1>4, FilesStay DEF SeenOK, Body
  <2> QED BY <1>1, <1>4, <1>8, <2>1, <2>2 DEF SeenOK, DigestWasContent
<1> QED BY <1>2, <1>6, <1>9, <1>10

LEMMA CloseFirstKeeps ==
    ASSUME AuditInv, CloseFirst
    PROVE  AuditInv'
<1> USE DEF AuditInv
<1>1. /\ hashing = "stream" /\ call.read = Blocks /\ first' = call.body
      /\ call' = call /\ seen' = seen /\ UNCHANGED files
  BY DEF CloseFirst
<1>2. /\ FilesOK' /\ Body(call.target)' \in seen' /\ data' = data /\ now' = now /\ stamp' = stamp
      /\ call.target \in Files /\ call.before \in Stats /\ call.body \in Contents
      /\ call.inode \in Inodes
  BY <1>1, FilesStay, CallFields DEF SeenOK, AuditOK, Body
<1>3. StreamOK'
  BY <1>1 DEF StreamOK, CloseFirst, Raise, Return
<1>4. CASE ~Unchanged
  <2>1. hashing' = "idle" /\ answer' = answer /\ digests' = digests
    BY <1>4 DEF CloseFirst, Raise
  <2>2. CacheOK'
    BY <1>1, <2>1, FilesStay
  <2> QED BY <1>1, <1>2, <1>3, <2>1, <2>2 DEF AuditOK, Hashings, SeenOK, DigestWasContent
<1>5. ASSUME Unchanged PROVE /\ call.before = <<call.inode, stamp[call.inode]>>
                             /\ path[call.target] = call.inode /\ Body(call.target) = data[call.inode]
  BY <1>5 DEF Unchanged, PathStat, Stat, Body
<1>6. \A o \in Offsets : call.body[o] <= data[call.inode][o]
  BY <1>1 DEF StreamOK, Offsets
<1>7. CASE Unchanged /\ call.reusable
  <2>1. /\ hashing' = "idle" /\ answer' = [target |-> call.target, digest |-> call.body]
        /\ digests' = [k \in DOMAIN digests \cup {Key} |-> IF k = Key THEN call.body ELSE digests[k]]
    BY <1>7 DEF CloseFirst, Return
  <2>2. call.body = data[call.inode]
    <3>1. \A o \in Offsets : call.body[o] = data[call.inode][o]
      BY <1>1, <1>7 DEF StreamOK, Unchanged, Offsets
    <3>2. data[call.inode] \in Contents
      BY <1>2 DEF FilesOK
    <3> QED BY <1>2, <3>1, <3>2 DEF Contents
  <2>3. call.before[2] < now
    BY <1>1, <1>7 DEF SeenOK
  <2>4. ASSUME NEW k \in DOMAIN digests' PROVE Entry(k)'
    <3>1. CASE k = Key
      <4>1. k \in Files \X Stats /\ k[2] = call.before /\ digests'[k] = call.body
        BY <1>2, <2>1, <3>1 DEF Key
      <4> QED BY <1>2, <1>5, <1>7, <2>2, <2>3, <4>1 DEF Entry, Stats
    <3>2. CASE k # Key
      <4>1. k \in DOMAIN digests /\ digests'[k] = digests[k]
        BY <2>1, <2>4, <3>2
      <4> QED BY <1>2, <4>1 DEF CacheOK, Entry, Stats
    <3> QED BY <3>1, <3>2
  <2>5. CacheOK'
    BY <2>4 DEF CacheOK
  <2>6. DigestWasContent'
    BY <1>1, <1>2, <1>5, <1>7, <2>1, <2>2 DEF DigestWasContent, SeenOK
  <2> QED BY <1>1, <1>2, <1>3, <2>1, <2>5, <2>6 DEF AuditOK, Hashings, SeenOK
<1>8. CASE Unchanged /\ ~call.reusable
  <2>1. hashing' = "reopen" /\ answer' = answer /\ digests' = digests
    BY <1>8 DEF CloseFirst
  <2>2. CacheOK'
    BY <1>1, <2>1, FilesStay
  <2>3. data[call.inode] \in seen /\ call.before[1] = call.inode
    BY <1>1, <1>5, <1>8 DEF SeenOK
  <2>4. Between(data[call.inode])'
    <3>1. data[call.inode] \in Contents
      BY <1>2 DEF FilesOK
    <3> QED BY <1>1, <1>2, <1>6, <2>1, <2>3, <3>1 DEF Between, Older, Contents
  <2> QED BY <1>1, <1>2, <1>3, <1>8, <2>1, <2>2, <2>3, <2>4 DEF AuditOK, Hashings, SeenOK, DigestWasContent
<1> QED BY <1>4, <1>7, <1>8

LEMMA CloseSecondKeeps ==
    ASSUME AuditInv, CloseSecond
    PROVE  AuditInv'
<1> USE DEF AuditInv
<1>1. /\ hashing = "restream" /\ call.read = Blocks /\ hashing' = "idle" /\ first' = first
      /\ call' = call /\ digests' = digests /\ seen' = seen /\ UNCHANGED files
      /\ \/ answer' = answer
         \/ Corroborated /\ answer' = [target |-> call.target, digest |-> first]
  BY DEF CloseSecond, Return, Raise, locals
<1>2. FilesOK' /\ CacheOK'
  BY <1>1, FilesStay
<1>3. AuditOK' /\ StreamOK'
  BY <1>1 DEF AuditOK, StreamOK, Hashings
<1>4. ASSUME Corroborated PROVE first \in seen
  <2>1. PICK m \in seen : Between(m)
    BY <1>1 DEF SeenOK
  <2>2. call.inode = call.before[1] /\ call.body = first
    BY <1>4 DEF Corroborated, Unchanged, Stat
  <2>3. \A o \in Offsets : first[o] <= m[o] /\ m[o] <= first[o]
    BY <1>1, <2>1, <2>2 DEF Between, Older, Offsets
  <2>4. first \in Contents /\ m \in Contents
    BY DEF AuditOK
  <2>5. \A o \in Offsets : first[o] = m[o]
    BY <2>3, <2>4 DEF Contents
  <2> QED BY <2>1, <2>4, <2>5 DEF Contents
<1>5. SeenOK'
  BY <1>1, <1>4 DEF SeenOK, DigestWasContent
<1> QED BY <1>2, <1>3, <1>5

-----------------------------------------------------------------------------
(* The stages *)

Places == Ended \cup {"hash", "look", "verify", "copy", "compare", "freeze"}

StagesOK ==
    /\ at \in [Stages -> Places] /\ next \in [Stages -> 1 .. Len(Sorted)]
    /\ named \in [Stages -> Trees] /\ partial \in [Stages -> Trees]
    /\ was \in SUBSET Trees

\* Files hashed are no newer than what is there now.
HashedOK(p) ==
    /\ at[p] = "hash" => \A n \in 1 .. next[p] - 1 : Older(named[p][Sorted[n]], Body(Sorted[n]))
    /\ at[p] = "look" => \A f \in Files : Older(named[p][f], Body(f))

\* The project as it was when stage p had hashed all files: no file of it is
\* older than its hash, nor newer than what is there now.  A file found to have
\* its hash again had it then.
AsItWas(p, tree) ==
    /\ \A f \in Files : Older(named[p][f], tree[f]) /\ Older(tree[f], Body(f))
    /\ \A n \in 1 .. next[p] - 1 :
          tree[Sorted[n]] = named[p][Sorted[n]] /\ partial[p][Sorted[n]] = named[p][Sorted[n]]

CopiedOK(p) ==
    /\ at[p] \in {"copy", "compare"} => \E tree \in was : AsItWas(p, tree)
    /\ at[p] = "freeze" => partial[p] = named[p] /\ named[p] \in was

ApartOK ==
    /\ readers \in {"audit", "stages"}
    /\ readers = "audit" => DOMAIN frozen = {} /\ \A p \in Stages : at[p] = "out"
    /\ readers = "stages" => hashing = "idle" /\ Project \in was

StagesInv ==
    /\ StagesOK /\ ApartOK /\ SnapshotIsSource
    /\ \A p \in Stages : HashedOK(p) /\ CopiedOK(p)

LEMMA SortedFacts ==
    /\ Len(Sorted) \in Nat /\ Len(Sorted) >= 1
    /\ \A n \in 1 .. Len(Sorted) : Sorted[n] \in Files
    /\ \A f \in Files : \E n \in 1 .. Len(Sorted) : Sorted[n] = f
    /\ \A m, n \in 1 .. Len(Sorted) : Sorted[m] = Sorted[n] => m = n
BY FilesAssumption, StageAssumption

\* What the editor leaves of a file is no older than what was there.
LEMMA ReplaceGrows ==
    ASSUME FilesOK, NEW f \in Files, Replace(f)
    PROVE  \A g \in Files : Older(Body(g), Body(g)')
<1> USE BlocksFacts
<1>1. SUFFICES ASSUME NEW g \in Files PROVE Older(Body(g), Body(g)')
  OBVIOUS
<1>2. /\ edits \in Nat /\ edits + 1 \in Inodes /\ path[g] \in Inodes /\ path[g] # edits + 1
      /\ data[path[g]] \in Contents /\ \A o \in Offsets : data[path[g]][o] <= edits
  <2>1. edits \in Nat /\ edits + 1 \in Inodes /\ path[g] \in Inodes
    BY DEF Replace, FilesOK, Inodes
  <2>2. path[g] = g \/ path[g] \in 1 .. edits
    BY DEF FilesOK
  <2>3. path[g] # edits + 1
    BY <2>1, <2>2
  <2> QED BY <2>1, <2>3 DEF FilesOK
<1>3. CASE g = f
  <2>1. path'[g] = edits + 1 /\ data'[edits + 1] = [b \in Offsets |-> edits + 1]
    BY <1>2, <1>3 DEF Replace, FilesOK, Offsets
  <2> QED BY <1>2, <2>1 DEF Older, Body, Contents
<1>4. CASE g # f
  <2>1. path'[g] = path[g] /\ data'[path[g]] = data[path[g]]
    BY <1>2, <1>4 DEF Replace, FilesOK
  <2> QED BY <1>2, <2>1 DEF Older, Body, Contents
<1> QED BY <1>3, <1>4

LEMMA ProjectIsTree ==
    ASSUME FilesOK
    PROVE  Project \in Trees /\ \A f \in Files : Project[f] = Body(f) /\ Body(f) \in Contents
BY DEF FilesOK, Project, Trees, Body

LEMMA OlderTransitive ==
    ASSUME NEW a \in Contents, NEW b \in Contents, NEW c \in Contents, Older(a, b), Older(b, c)
    PROVE  Older(a, c)
BY DEF Older, Contents

\* The editor next to the stages.
LEMMA EditorKeepsStages ==
    ASSUME FilesOK, FilesOK', StagesInv, EditorBesideStages
    PROVE  StagesInv'
<1> USE DEF StagesInv
<1>1. PICK f \in Files : Replace(f)
  BY DEF EditorBesideStages
<1>2. /\ was' = was \cup {Project'} /\ UNCHANGED <<hashing, at, next, named, partial, frozen, readers>>
      /\ readers = "stages"
  BY DEF EditorBesideStages, Record, audit
<1>3. \A g \in Files : Body(g) \in Contents /\ Body(g)' \in Contents /\ Older(Body(g), Body(g)')
  BY <1>1, ReplaceGrows, ProjectIsTree DEF FilesOK, Body
<1>4. StagesOK'
  <2>1. Project' \in Trees
    BY DEF FilesOK, Project, Trees, Body
  <2> QED BY <1>2, <2>1 DEF StagesOK
<1>5. ApartOK' /\ SnapshotIsSource'
  BY <1>2 DEF ApartOK, SnapshotIsSource
<1>6. ASSUME NEW p \in Stages PROVE HashedOK(p)' /\ CopiedOK(p)'
  <2>1. named[p] \in Trees /\ next[p] \in 1 .. Len(Sorted)
    BY DEF StagesOK
  <2>2. \A g \in Files : Older(named[p][g], Body(g)) => Older(named[p][g], Body(g)')
    BY <1>3, <2>1, OlderTransitive DEF Trees
  <2>3. \A n \in 1 .. next[p] - 1 : Sorted[n] \in Files
    BY <2>1, SortedFacts
  <2>4. HashedOK(p)'
    BY <1>2, <2>2, <2>3 DEF HashedOK
  <2>5. ASSUME NEW tree \in was, AsItWas(p, tree) PROVE AsItWas(p, tree)'
    <3>1. tree \in Trees
      BY DEF StagesOK
    <3>2. \A g \in Files : Older(tree[g], Body(g)')
      BY <1>3, <2>5, <3>1, OlderTransitive DEF Trees, AsItWas
    <3> QED BY <1>2, <2>5, <3>2 DEF AsItWas
  <2>6. CopiedOK(p)'
    BY <1>2, <2>5 DEF CopiedOK
  <2> QED BY <2>4, <2>6
<1> QED BY <1>4, <1>5, <1>6

\* A step of one stage leaves the knowledge of the others, and the files.
LEMMA OthersStay ==
    ASSUME StagesInv, NEW p \in Stages, NEW q \in Stages, q # p, UNCHANGED files, was' = was,
           at'[q] = at[q], next'[q] = next[q], named'[q] = named[q], partial'[q] = partial[q]
    PROVE  HashedOK(q)' /\ CopiedOK(q)'
<1>1. \A f : Body(f)' = Body(f)
  BY FilesStay
<1>2. \A tree : AsItWas(q, tree) => AsItWas(q, tree)'
  BY <1>1 DEF AsItWas
<1>3. HashedOK(q)'
  BY <1>1 DEF StagesInv, HashedOK
<1>4. CopiedOK(q)'
  BY <1>2 DEF StagesInv, CopiedOK
<1> QED BY <1>3, <1>4

\* What remains to be shown of a step of stage p.
LEMMA StageKeeps ==
    ASSUME FilesOK, StagesInv, NEW p \in Stages, readers = "stages", readers' = readers, UNCHANGED files,
           hashing' = hashing, was' = was,
           NEW w \in Places, at' = [at EXCEPT ![p] = w],
           NEW n \in 1 .. Len(Sorted), next' = [next EXCEPT ![p] = n],
           NEW t \in Trees, named' = [named EXCEPT ![p] = t],
           NEW u \in Trees, partial' = [partial EXCEPT ![p] = u],
           SnapshotIsSource', HashedOK(p)', CopiedOK(p)'
    PROVE  StagesInv'
<1>1. StagesOK'
  BY DEF StagesInv, StagesOK
<1>2. ApartOK'
  <2>1. Project' = Project
    BY FilesStay DEF Project
  <2> QED BY <2>1 DEF StagesInv, ApartOK
<1>3. ASSUME NEW q \in Stages PROVE HashedOK(q)' /\ CopiedOK(q)'
  <2>1. CASE q = p
    BY <2>1
  <2>2. CASE q # p
    <3>1. at'[q] = at[q] /\ next'[q] = next[q] /\ named'[q] = named[q] /\ partial'[q] = partial[q]
      BY <2>2 DEF StagesInv, StagesOK
    <3> QED BY <2>2, <3>1, OthersStay
  <2> QED BY <2>1, <2>2
<1> QED BY <1>1, <1>2, <1>3 DEF StagesInv

\* The values of the locals of p after a step that changes none, and their types.
LEMMA StageLocals ==
    ASSUME StagesInv, NEW p \in Stages
    PROVE  /\ at[p] \in Places /\ next[p] \in 1 .. Len(Sorted) /\ next[p] \in Nat
           /\ named[p] \in Trees /\ partial[p] \in Trees /\ File(p) \in Files
           /\ named' = named => named' = [named EXCEPT ![p] = named[p]]
           /\ partial' = partial => partial' = [partial EXCEPT ![p] = partial[p]]
           /\ next' = next => next' = [next EXCEPT ![p] = next[p]]
           /\ 1 \in 1 .. Len(Sorted)
<1>1. at[p] \in Places /\ next[p] \in 1 .. Len(Sorted) /\ named[p] \in Trees /\ partial[p] \in Trees
  BY DEF StagesInv, StagesOK
<1>2. named = [named EXCEPT ![p] = named[p]] /\ partial = [partial EXCEPT ![p] = partial[p]]
      /\ next = [next EXCEPT ![p] = next[p]]
  BY DEF StagesInv, StagesOK
<1> QED BY <1>1, <1>2, SortedFacts DEF File

\* A step that goes to a place where nothing is known of the files but, at
\* "copy", that p has hashed all of them.
LEMMA GotoKeeps ==
    ASSUME FilesOK, StagesInv, NEW p \in Stages, readers = "stages", readers' = readers, UNCHANGED files,
           hashing' = hashing, was' = was, named' = named, partial' = partial,
           NEW w \in Ended \cup {"verify", "copy"}, Goto(p, w),
           w = "copy" => at[p] = "look", SnapshotIsSource'
    PROVE  StagesInv'
<1>1. at' = [at EXCEPT ![p] = w] /\ next' = [next EXCEPT ![p] = 1] /\ w \in Places
  BY DEF Goto, Places
<1>2. at'[p] = w /\ next'[p] = 1
  BY <1>1 DEF StagesInv, StagesOK
<1>3. HashedOK(p)'
  BY <1>2 DEF HashedOK, Ended
<1>4. CopiedOK(p)'
  <2>1. CASE w = "copy"
    <3>1. \A f \in Files : Older(named[p][f], Project[f]) /\ Older(Project[f], Body(f)')
      <4>1. ASSUME NEW f \in Files PROVE Older(named[p][f], Project[f]) /\ Older(Project[f], Body(f)')
        <5>1. Body(f)' = Body(f) /\ Project[f] = Body(f) /\ Body(f) \in Contents
          BY FilesStay, ProjectIsTree
        <5> QED BY <2>1, <5>1 DEF StagesInv, HashedOK, Older, Contents
      <4> QED BY <4>1
    <3>2. AsItWas(p, Project)'
      <4>1. Project' = Project
        BY FilesStay DEF Project
      <4>2. 1 .. next'[p] - 1 = {}
        BY <1>2
      <4> QED BY <3>1, <4>1, <4>2 DEF AsItWas
    <3>3. Project' \in was'
      BY FilesStay DEF StagesInv, ApartOK, Project
    <3> QED BY <1>2, <2>1, <3>2, <3>3 DEF CopiedOK
  <2>2. CASE w # "copy"
    BY <1>2, <2>2 DEF CopiedOK, Ended
  <2> QED BY <2>1, <2>2
<1>5. /\ named' = [named EXCEPT ![p] = named[p]] /\ partial' = [partial EXCEPT ![p] = partial[p]]
      /\ named[p] \in Trees /\ partial[p] \in Trees /\ 1 \in 1 .. Len(Sorted)
  BY StageLocals
<1> QED BY <1>1, <1>3, <1>4, <1>5, StageKeeps

LEMMA LaunchKeeps ==
    ASSUME FilesOK, StagesInv, NEW p \in Stages, readers = "stages", readers' = readers,
           hashing' = hashing, Launch(p)
    PROVE  StagesInv'
<1>1. /\ at' = [at EXCEPT ![p] = "hash"] /\ next' = [next EXCEPT ![p] = 1]
      /\ named' = [named EXCEPT ![p] = EmptyTree] /\ partial' = [partial EXCEPT ![p] = EmptyTree]
      /\ frozen' = frozen /\ was' = was /\ UNCHANGED files
  BY DEF Launch, Goto
<1>2. EmptyTree \in Trees /\ "hash" \in Places /\ 1 \in 1 .. Len(Sorted)
  BY SortedFacts DEF EmptyTree, Trees, Contents, Offsets, Places
<1>3. at'[p] = "hash" /\ next'[p] = 1
  BY <1>1 DEF StagesInv, StagesOK
<1>4. SnapshotIsSource' /\ HashedOK(p)' /\ CopiedOK(p)'
  BY <1>1, <1>3 DEF StagesInv, SnapshotIsSource, HashedOK, CopiedOK
<1> QED BY <1>1, <1>2, <1>4, StageKeeps

LEMMA HashFileKeeps ==
    ASSUME FilesOK, StagesInv, NEW p \in Stages, readers = "stages", readers' = readers,
           hashing' = hashing, HashFile(p)
    PROVE  StagesInv'
<1> DEFINE w == IF Last(p) THEN "look" ELSE "hash"
           n == IF Last(p) THEN 1 ELSE next[p] + 1
           t == [named[p] EXCEPT ![File(p)] = Body(File(p))]
<1>1. /\ at[p] = "hash" /\ frozen' = frozen /\ was' = was /\ UNCHANGED files /\ partial' = partial
      /\ at' = [at EXCEPT ![p] = w] /\ next' = [next EXCEPT ![p] = n] /\ named' = [named EXCEPT ![p] = t]
  BY DEF HashFile, Advance, StagesInv, StagesOK
<1>2. /\ next[p] \in 1 .. Len(Sorted) /\ named[p] \in Trees /\ File(p) \in Files /\ partial[p] \in Trees
      /\ partial' = [partial EXCEPT ![p] = partial[p]]
  BY <1>1, StageLocals
<1>3. n \in 1 .. Len(Sorted) /\ w \in Places
  BY <1>2, SortedFacts DEF Last, Places
<1>4. /\ t \in Trees /\ t[File(p)] = Body(File(p)) /\ \A f \in Files \ {File(p)} : t[f] = named[p][f]
      /\ Body(File(p)) \in Contents
  BY <1>2, ProjectIsTree DEF Trees
<1> HIDE DEF t
<1>5. at'[p] = w /\ next'[p] = n /\ named'[p] = t
  BY <1>1 DEF StagesInv, StagesOK
<1>6. ASSUME NEW m \in 1 .. next[p] PROVE Older(t[Sorted[m]], Body(Sorted[m])')
  <2>1. Sorted[m] \in Files /\ Body(Sorted[m])' = Body(Sorted[m])
    BY <1>1, <1>2, FilesStay, SortedFacts
  <2>2. CASE Sorted[m] = File(p)
    BY <1>4, <2>1, <2>2 DEF Older, Contents
  <2>3. CASE Sorted[m] # File(p)
    <3>1. m \in 1 .. next[p] - 1
      BY <1>2, <2>3 DEF File
    <3> QED BY <1>1, <1>4, <2>1, <2>3, <3>1 DEF StagesInv, HashedOK
  <2> QED BY <2>2, <2>3
<1>7. HashedOK(p)'
  <2>1. CASE Last(p)
    <3>1. \A f \in Files : \E m \in 1 .. next[p] : Sorted[m] = f
      BY <2>1, SortedFacts DEF Last
    <3>2. \A f \in Files : Older(t[f], Body(f)')
      BY <1>6, <3>1
    <3> QED BY <1>5, <2>1, <3>2 DEF HashedOK
  <2>2. CASE ~Last(p)
    <3>1. n - 1 = next[p]
      BY <1>2, <2>2
    <3> HIDE DEF n
    <3>2. \A m \in 1 .. next'[p] - 1 : Older(named'[p][Sorted[m]], Body(Sorted[m])')
      BY <1>5, <1>6, <3>1
    <3> QED BY <1>5, <2>2, <3>2 DEF HashedOK
  <2> QED BY <2>1, <2>2
<1>8. CopiedOK(p)' /\ SnapshotIsSource'
  BY <1>1, <1>5 DEF CopiedOK, StagesInv, SnapshotIsSource
<1> HIDE DEF w, n
<1> QED BY <1>1, <1>2, <1>3, <1>4, <1>7, <1>8, StageKeeps

LEMMA LookForSnapshotKeeps ==
    ASSUME FilesOK, StagesInv, NEW p \in Stages, readers = "stages", readers' = readers,
           hashing' = hashing, LookForSnapshot(p)
    PROVE  StagesInv'
<1>1. /\ at[p] = "look" /\ UNCHANGED files /\ was' = was /\ named' = named /\ partial' = partial
      /\ frozen' = frozen /\ (Goto(p, "verify") \/ Goto(p, "copy"))
  BY DEF LookForSnapshot
<1>2. SnapshotIsSource'
  BY <1>1 DEF StagesInv, SnapshotIsSource
<1> QED BY <1>1, <1>2, GotoKeeps

LEMMA CopyFileKeeps ==
    ASSUME FilesOK, StagesInv, NEW p \in Stages, readers = "stages", readers' = readers,
           hashing' = hashing, CopyFile(p)
    PROVE  StagesInv'
<1> DEFINE u == [partial[p] EXCEPT ![File(p)] = Body(File(p))]
<1>1. /\ at[p] = "copy" /\ frozen' = frozen /\ was' = was /\ UNCHANGED files /\ named' = named
      /\ at' = [at EXCEPT ![p] = "compare"] /\ next' = next /\ partial' = [partial EXCEPT ![p] = u]
  BY DEF CopyFile, StagesInv, StagesOK
<1>2. /\ next[p] \in 1 .. Len(Sorted) /\ named[p] \in Trees /\ File(p) \in Files /\ partial[p] \in Trees
      /\ named' = [named EXCEPT ![p] = named[p]] /\ next' = [next EXCEPT ![p] = next[p]]
      /\ "compare" \in Places
  BY <1>1, StageLocals DEF Places
<1>3. u \in Trees /\ \A f \in Files \ {File(p)} : u[f] = partial[p][f]
  BY <1>2, ProjectIsTree DEF Trees
<1> HIDE DEF u
<1>4. at'[p] = "compare" /\ partial'[p] = u
  BY <1>1 DEF StagesInv, StagesOK
<1>5. PICK tree \in was : AsItWas(p, tree)
  BY <1>1 DEF StagesInv, CopiedOK
<1>6. AsItWas(p, tree)'
  <2>1. \A n \in 1 .. next[p] - 1 : Sorted[n] \in Files /\ Sorted[n] # File(p)
    BY <1>2, SortedFacts DEF File
  <2>2. \A f : Body(f)' = Body(f)
    BY <1>1, FilesStay
  <2> QED BY <1>1, <1>3, <1>4, <1>5, <2>1, <2>2 DEF AsItWas
<1>7. HashedOK(p)' /\ CopiedOK(p)' /\ SnapshotIsSource'
  BY <1>1, <1>4, <1>5, <1>6 DEF CopiedOK, HashedOK, StagesInv, SnapshotIsSource
<1> QED BY <1>1, <1>2, <1>3, <1>7, StageKeeps

LEMMA CompareFileKeeps ==
    ASSUME FilesOK, StagesInv, NEW p \in Stages, readers = "stages", readers' = readers,
           hashing' = hashing, CompareFile(p)
    PROVE  StagesInv'
<1> DEFINE w == IF Last(p) THEN "freeze" ELSE "copy"
           n == IF Last(p) THEN 1 ELSE next[p] + 1
<1>1. /\ at[p] = "compare" /\ frozen' = frozen /\ was' = was /\ UNCHANGED files
      /\ named' = named /\ partial' = partial
  BY DEF CompareFile
<1>2. SnapshotIsSource'
  BY <1>1 DEF StagesInv, SnapshotIsSource
<1>3. CASE ~AsHashed(p, File(p))
  <2>1. Goto(p, "raised") /\ "raised" \in Ended
    BY <1>3 DEF CompareFile, Ended
  <2> QED BY <1>1, <1>2, <2>1, GotoKeeps
<1>4. CASE AsHashed(p, File(p))
  <2>1. at' = [at EXCEPT ![p] = w] /\ next' = [next EXCEPT ![p] = n]
    BY <1>4 DEF CompareFile, Advance, StagesInv, StagesOK
  <2>2. /\ next[p] \in 1 .. Len(Sorted) /\ named[p] \in Trees /\ File(p) \in Files /\ partial[p] \in Trees
        /\ named' = [named EXCEPT ![p] = named[p]] /\ partial' = [partial EXCEPT ![p] = partial[p]]
    BY <1>1, StageLocals
  <2>3. n \in 1 .. Len(Sorted) /\ w \in Places
    BY <2>2, SortedFacts DEF Last, Places
  <2>4. at'[p] = w /\ next'[p] = n
    BY <2>1 DEF StagesInv, StagesOK
  <2>5. PICK tree \in was : AsItWas(p, tree)
    BY <1>1 DEF StagesInv, CopiedOK
  <2>6. partial[p][File(p)] = named[p][File(p)] /\ Body(File(p)) = named[p][File(p)] /\ tree \in Trees
    BY <1>4 DEF AsHashed, StagesInv, StagesOK
  <2>7. tree[File(p)] = named[p][File(p)]
    <3>1. Older(named[p][File(p)], tree[File(p)]) /\ Older(tree[File(p)], named[p][File(p)])
      BY <2>2, <2>5, <2>6 DEF AsItWas
    <3>2. tree[File(p)] \in Contents /\ named[p][File(p)] \in Contents
      BY <2>2, <2>6 DEF Trees
    <3> HIDE DEF w, n
    <3>3. \A o \in Offsets : tree[File(p)][o] = named[p][File(p)][o]
      BY <3>1, <3>2 DEF Older, Contents
    <3> QED BY <3>2, <3>3 DEF Contents
  <2>8. \A m \in 1 .. next[p] :
           tree[Sorted[m]] = named[p][Sorted[m]] /\ partial[p][Sorted[m]] = named[p][Sorted[m]]
    <3>1. \A m \in 1 .. next[p] : m = next[p] \/ m \in 1 .. next[p] - 1
      BY <2>2
    <3> QED BY <2>5, <2>6, <2>7, <3>1 DEF AsItWas, File
  <2>9. CopiedOK(p)'
    <3>1. CASE Last(p)
      <4>1. \A f \in Files : \E m \in 1 .. next[p] : Sorted[m] = f
        BY <3>1, SortedFacts DEF Last
      <4>2. \A f \in Files : tree[f] = named[p][f] /\ partial[p][f] = named[p][f]
        BY <2>8, <4>1
      <4>3. tree = named[p] /\ partial[p] = named[p]
        BY <2>2, <2>6, <4>2 DEF Trees
      <4> QED BY <1>1, <2>4, <3>1, <4>3 DEF CopiedOK
    <3>2. CASE ~Last(p)
      <4>1. n - 1 = next[p]
        BY <2>2, <3>2
      <4>2. AsItWas(p, tree)'
        <5>1. \A f : Body(f)' = Body(f)
          BY <1>1, FilesStay
        <5> HIDE DEF n
        <5> QED BY <1>1, <2>4, <2>5, <2>8, <4>1, <5>1 DEF AsItWas
      <4> QED BY <1>1, <2>4, <3>2, <4>2 DEF CopiedOK
    <3> QED BY <3>1, <3>2
  <2>10. HashedOK(p)'
    BY <2>4 DEF HashedOK
  <2> HIDE DEF w, n
  <2>11. next' = [next EXCEPT ![p] = n] /\ n \in 1 .. Len(Sorted) /\ at' = [at EXCEPT ![p] = w] /\ w \in Places
    BY <2>1, <2>3
  <2> QED BY <1>1, <1>2, <2>2, <2>9, <2>10, <2>11, StageKeeps
<1> QED BY <1>3, <1>4

LEMMA FreezeKeeps ==
    ASSUME FilesOK, StagesInv, NEW p \in Stages, readers = "stages", readers' = readers,
           hashing' = hashing, Freeze(p)
    PROVE  StagesInv'
<1>1. /\ at[p] = "freeze" /\ UNCHANGED files /\ was' = was /\ named' = named /\ partial' = partial
      /\ (Goto(p, "verify") \/ Goto(p, "raised")) /\ "raised" \in Ended
      /\ \/ frozen' = frozen
         \/ frozen' = [d \in DOMAIN frozen \cup {named[p]} |->
                            IF d = named[p] THEN partial[p] ELSE frozen[d]]
  BY DEF Freeze, Ended
<1>2. partial[p] = named[p] /\ named[p] \in was
  BY <1>1 DEF StagesInv, CopiedOK
<1>3. SnapshotIsSource'
  BY <1>1, <1>2 DEF StagesInv, SnapshotIsSource
<1> QED BY <1>1, <1>3, GotoKeeps

LEMMA VerifyOrDieKeeps ==
    ASSUME FilesOK, StagesInv, NEW p \in Stages, readers = "stages", readers' = readers,
           hashing' = hashing, VerifySnapshot(p) \/ Die(p)
    PROVE  StagesInv'
<1>1. /\ UNCHANGED files /\ was' = was /\ named' = named /\ partial' = partial /\ frozen' = frozen
      /\ (Goto(p, "started") \/ Goto(p, "raised") \/ Goto(p, "dead"))
      /\ "started" \in Ended /\ "raised" \in Ended /\ "dead" \in Ended
  BY DEF VerifySnapshot, Die, Ended
<1>2. SnapshotIsSource'
  BY <1>1 DEF StagesInv, SnapshotIsSource
<1> QED BY <1>1, <1>2, GotoKeeps

-----------------------------------------------------------------------------
(* The two next to the editor *)

Inv == AuditInv /\ StagesInv

LEMMA InitInv == Init => Inv
<1> SUFFICES ASSUME Init PROVE Inv
  OBVIOUS
<1> USE BlocksFacts DEF Init
<1>1. FilesOK
  BY DEF FilesInit, FilesOK, Contents, Offsets, Inodes
<1>2. Blank \in Contents
  BY DEF Blank, Contents, Offsets
<1>3. AuditInv
  BY <1>1, <1>2 DEF AuditInit, AuditInv, AuditOK, NoCall, Calls, Hashings, CacheOK, StreamOK, SeenOK,
                    DigestWasContent
<1>4. EmptyTree \in Trees /\ 1 \in 1 .. Len(Sorted) /\ Project \in Trees
  BY <1>1, SortedFacts, ProjectIsTree DEF EmptyTree, Trees, Contents, Offsets
<1>5. StagesOK
  BY <1>4 DEF StagesInit, StagesOK, Places, Ended
<1>6. ApartOK /\ SnapshotIsSource /\ \A p \in Stages : at[p] = "out"
  BY DEF StagesInit, AuditInit, ApartOK, SnapshotIsSource
<1>7. StagesInv
  BY <1>5, <1>6 DEF StagesInv, HashedOK, CopiedOK
<1> QED BY <1>3, <1>7 DEF Inv

\* A step that leaves the files and all of the audit, or of the stages, alone.
LEMMA AuditStays ==
    ASSUME AuditInv, UNCHANGED <<files, audit>>
    PROVE  AuditInv'
BY DEF AuditInv, FilesOK, AuditOK, CacheOK, Entry, StreamOK, SeenOK, DigestWasContent, Between, Cached, Key,
       Body, Stat, files, audit, locals

LEMMA StagesStay ==
    ASSUME StagesInv, UNCHANGED <<locked, readers>>,
           UNCHANGED <<files, hashing>> \/ readers = "audit"
    PROVE  StagesInv'
<1>1. UNCHANGED <<at, next, named, partial, frozen, was, readers>>
  BY DEF locked
<1>2. StagesOK' /\ SnapshotIsSource'
  BY <1>1 DEF StagesInv, StagesOK, SnapshotIsSource
<1>3. CASE UNCHANGED <<files, hashing>>
  <2>1. \A f : Body(f)' = Body(f)
    BY <1>3, FilesStay
  <2>2. Project' = Project
    BY <1>3, FilesStay DEF Project
  <2>3. \A p \in Stages : HashedOK(p)' /\ CopiedOK(p)'
    BY <1>1, <2>1 DEF StagesInv, HashedOK, CopiedOK, AsItWas
  <2> QED BY <1>1, <1>2, <1>3, <2>2, <2>3 DEF StagesInv, ApartOK
<1>4. CASE readers = "audit"
  BY <1>1, <1>2, <1>4 DEF StagesInv, ApartOK, HashedOK, CopiedOK
<1> QED BY <1>3, <1>4

LEMMA NextInv == Inv /\ [Next]_vars => Inv'
<1> SUFFICES ASSUME Inv, [Next]_vars PROVE Inv'
  OBVIOUS
<1> USE DEF Inv
<1>1. CASE AuditStep
  <2>1. Hash /\ readers = "audit" /\ UNCHANGED <<locked, readers>>
    BY <1>1 DEF AuditStep
  <2>2. AuditInv'
    BY <2>1, LookKeeps, DecideKeeps, OpenKeeps, StreamBlockKeeps, CloseFirstKeeps, CloseSecondKeeps DEF Hash
  <2> QED BY <2>1, <2>2, StagesStay
<1>2. CASE EditorBesideAudit
  <2>1. /\ Environment /\ Witness /\ readers = "audit"
        /\ UNCHANGED <<hashing, locals, digests, answer>> /\ UNCHANGED <<locked, readers>>
    BY <1>2 DEF EditorBesideAudit
  <2>2. AuditInv'
    BY <2>1, EditorKeepsAudit DEF Witness
  <2> QED BY <2>1, <2>2, StagesStay
<1>3. CASE EditorBesideStages
  <2>1. Environment /\ UNCHANGED <<hashing, locals, digests, answer, seen>> /\ hashing = "idle"
    BY <1>3 DEF EditorBesideStages, Environment, audit, StagesInv, ApartOK
  <2>2. AuditInv'
    BY <2>1, EditorKeepsAudit
  <2> QED BY <1>3, <2>2, EditorKeepsStages DEF AuditInv
<1>4. ASSUME NEW p \in Stages, AStageLaunch(p) \/ AStageStep(p) \/ AStageDies(p) PROVE Inv'
  <2>1. readers = "stages" /\ readers' = readers /\ UNCHANGED audit /\ hashing' = hashing /\ FilesOK
        /\ (Launch(p) \/ StageStep(p) \/ Die(p))
    BY <1>4 DEF AStageLaunch, AStageStep, AStageDies, audit, AuditInv
  <2>2. UNCHANGED files
    BY <2>1 DEF Launch, StageStep, Die, HashFile, LookForSnapshot, CopyFile, CompareFile, Freeze, VerifySnapshot
  <2>3. StagesInv'
    BY <2>1, LaunchKeeps, HashFileKeeps, LookForSnapshotKeeps, CopyFileKeeps, CompareFileKeeps, FreezeKeeps,
       VerifyOrDieKeeps DEF StageStep
  <2> QED BY <2>1, <2>2, <2>3, AuditStays
<1>5. CASE UNCHANGED vars
  <2>1. UNCHANGED <<files, audit, locked, readers, hashing>>
    BY <1>5 DEF vars, audit
  <2> QED BY <2>1, AuditStays, StagesStay
<1> QED BY <1>1, <1>2, <1>3, <1>4, <1>5 DEF Next

THEOREM ReadersKeepInv == Spec => []Inv
<1>1. Init => Inv
  BY InitInv
<1>2. Inv /\ [Next]_vars => Inv'
  BY NextInv
<1> QED BY <1>1, <1>2, PTL DEF Spec

\* A digest the audit is given is that of a content its file had during the
\* call, for any number of blocks, edits and ticks and any order of them.
THEOREM DigestsAreContents == Spec => []DigestWasContent
<1>1. Inv => DigestWasContent
  BY DEF Inv, AuditInv, SeenOK
<1> QED BY <1>1, ReadersKeepInv, PTL

\* A digest in the cache under the present stat of its file is that of the
\* present content: a write in the tick of the reading never slips past it.
THEOREM CachedDigestsAreCurrent == Spec => []CacheIsCurrent
<1>1. Inv => CacheIsCurrent
  BY CacheCurrent DEF Inv, AuditInv
<1> QED BY <1>1, ReadersKeepInv, PTL

\* A snapshot of the source that any number of stages made, next to each
\* other, to deaths and to edits, is the project as it was at some one time.
THEOREM SnapshotsAreSource == Spec => []SnapshotIsSource
<1>1. Inv => SnapshotIsSource
  BY DEF Inv, StagesInv
<1> QED BY <1>1, ReadersKeepInv, PTL

=============================================================================
