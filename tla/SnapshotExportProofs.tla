------------------------ MODULE SnapshotExportProofs ------------------------
(***************************************************************************)
(* What SnapshotWriter promises its readers, for all indexes, clocks,      *)
(* crashes and damages, when the exports of a directory do not overlap     *)
(* (OneExport): two at a time share a temporary file, and a path can then  *)
(* have a part of a file.                                                  *)
(*                                                                         *)
(* The argument: a put has the temporary file of its own path and renames  *)
(* it when it is whole (PutInv); an export goes through its manifest in    *)
(* order, so what it published so far follows from where it is (ExportInv);*)
(* hence a signature names a manifest whose range files are there, and     *)
(* latest.json a signature (DiskInv), and no file that a reader relies on  *)
(* goes or changes (ReaderInv).                                            *)
(***************************************************************************)
EXTENDS SnapshotExport, TLAPS

\* The exports of a directory do not overlap.
OneExport == \A e, o \in Exporters : e = o

-----------------------------------------------------------------------------
(* The types *)

Blob == Nat \X {"a", "b"}
Manifests == Seq(Blob)
Paths == ({"range"} \X Blob) \cup ({"manifest", "signature"} \X Nat) \cup {LatestPath}
Datas == Manifests \cup (Nat \X Nat)
Put == [path : Paths, data : Datas, handle : {"none", "temp", "file", "gone"}]
Export ==
  [pc : {"idle", "path", "range", "create", "write", "rename"}, now : Nat,
   manifest : Manifests, at : Nat, put : Put]
Reader ==
  [pc : {"latest", "manifest", "signature", "ranges", "failed"}, time : Nat,
   sealed_through : Nat, manifest : Manifests, at : Nat]
Counts == [reorgs : Nat, crashes : Nat, damages : Nat]

Typed ==
  /\ blobs \in Manifests /\ filled \in 0..Len(blobs) /\ branch \in {"a", "b"}
  /\ clock \in Nat /\ counts \in Counts
  /\ exp \in [Exporters -> Export] /\ reader \in Reader

-----------------------------------------------------------------------------
(* The inductive invariant *)

\* What the directory has: only a range file can be cut, and only by damage.
DiskInv ==
  /\ \A p \in DOMAIN files : ~files[p].whole => p[1] = "range" /\ counts.damages # 0
  /\ \A b : RangePath(b) \in DOMAIN files /\ files[RangePath(b)].whole
              => files[RangePath(b)].data = <<b>>
  /\ \A t : SignaturePath(t) \in DOMAIN files =>
       /\ ManifestPath(t) \in DOMAIN files
       /\ files[ManifestPath(t)].data \in Manifests
       /\ files[SignaturePath(t)].data = files[ManifestPath(t)].data
       /\ \A i \in 1..Len(files[ManifestPath(t)].data) :
            RangePath(files[ManifestPath(t)].data[i]) \in DOMAIN files
  /\ LatestPath \in DOMAIN files =>
       LET t == files[LatestPath].data[1] IN
       /\ files[LatestPath].data \in Nat \X Nat
       /\ SignaturePath(t) \in DOMAIN files
       /\ files[LatestPath].data[2] = Len(files[ManifestPath(t)].data)

Putting(e) == exp[e].pc \in {"create", "write", "rename"}
Running(e) == exp[e].pc = "range" \/ Putting(e)

\* How far an export is in its manifest, and what is in the directory by then.
ExportInv ==
  \A e \in Exporters :
    LET x == exp[e]   m == x.manifest   n == Len(m) IN
    Running(e) =>
      /\ x.at \in 1..(n + 4) /\ (Putting(e) => x.at <= n + 3)
      /\ \A i \in 1..n : i < x.at =>
           RangePath(m[i]) \in DOMAIN files /\ files[RangePath(m[i])].whole
      /\ x.at <= n + 1 => ManifestPath(x.now) \notin DOMAIN files
      /\ x.at > n + 1 => ManifestPath(x.now) \in DOMAIN files /\ files[ManifestPath(x.now)].data = m
      /\ x.at > n + 2 => SignaturePath(x.now) \in DOMAIN files

\* The file that an export puts, and the temporary file of it.
Puts(x, path, data) == x.put.path = path /\ x.put.data = data
PutInv ==
  \A e \in Exporters :
    LET x == exp[e]   m == x.manifest   n == Len(m) IN
    Putting(e) =>
      /\ x.at <= n => Puts(x, RangePath(m[x.at]), <<m[x.at]>>)
      /\ x.at = n + 1 => Puts(x, ManifestPath(x.now), m)
      /\ x.at = n + 2 => Puts(x, SignaturePath(x.now), m)
      /\ x.at = n + 3 => Puts(x, LatestPath, <<x.now, n>>)
      /\ x.pc = "write" => /\ x.put.handle = "temp" /\ x.put.path \in DOMAIN temps
                           /\ temps[x.put.path] = Cut
      /\ x.pc = "rename" => /\ x.put.path \in DOMAIN temps
                            /\ temps[x.put.path] = Whole(x.put.data)

\* What a reader took is in the directory.
ReaderInv ==
  LET t == reader.time IN
  /\ reader.pc \in {"manifest", "signature"} =>
       /\ SignaturePath(t) \in DOMAIN files
       /\ reader.sealed_through = Len(files[ManifestPath(t)].data)
  /\ reader.pc = "signature" => reader.manifest = files[ManifestPath(t)].data
  /\ reader.pc = "ranges" =>
       /\ reader.at # 0
       /\ \A i \in 1..Len(reader.manifest) : RangePath(reader.manifest[i]) \in DOMAIN files
  /\ reader.pc = "failed" => counts.damages # 0

SnapshotInv == Typed /\ DiskInv /\ ExportInv /\ PutInv /\ ReaderInv

LEMMA IdleTyped == Idle \in Export /\ Idle.pc = "idle" /\ NoPut \in Put
<1>1. LatestPath \in Paths /\ <<>> \in Datas /\ <<>> \in Manifests
  BY DEF Paths, Datas, Manifests
<1>2. NoPut \in Put
  BY <1>1 DEF NoPut, Put
<1> QED
  BY <1>1, <1>2 DEF Idle, Export

LEMMA InitLemma == Init => SnapshotInv
<1> SUFFICES ASSUME Init PROVE SnapshotInv
  OBVIOUS
<1>1. DOMAIN files = {} /\ DOMAIN temps = {}
  BY DEF Init
<1>2. \A e \in Exporters : exp[e].pc = "idle"
  BY DEF Init, Idle
<1>3. Typed
  <2>1. Idle \in Export /\ Waiting \in Reader /\ <<>> \in Manifests
    BY IdleTyped DEF Waiting, Reader, Manifests
  <2>2. counts \in Counts
    BY DEF Init, Counts
  <2> QED
    BY <2>1, <2>2 DEF Init, Typed
<1>4. DiskInv
  BY <1>1 DEF DiskInv
<1>5. ExportInv /\ PutInv
  BY <1>2 DEF ExportInv, PutInv, Running, Putting
<1>6. ReaderInv
  BY DEF Init, Waiting, ReaderInv
<1> QED
  BY <1>3, <1>4, <1>5, <1>6 DEF SnapshotInv

-----------------------------------------------------------------------------
(* The steps that leave the directory as it is *)

\* One export changes: Typed stays, and the others are about it.
LEMMA ExportStep ==
  ASSUME OneExport, Typed, NEW e \in Exporters, NEW new \in Export,
         exp' = [exp EXCEPT ![e] = new],
         UNCHANGED <<blobs, filled, branch, clock, reader>>, counts' \in Counts
  PROVE  Typed' /\ \A o \in Exporters : exp'[o] = new
<1>1. exp' = [o \in Exporters |-> new]
  BY DEF OneExport, Typed
<1> QED
  BY <1>1 DEF Typed

\* The same when the directory and the damages stay: what is left to show.
LEMMA QuietStep ==
  ASSUME SnapshotInv, Typed', UNCHANGED <<files, reader>>, counts'.damages = counts.damages,
         ExportInv', PutInv'
  PROVE  SnapshotInv'
<1>1. DiskInv' /\ ReaderInv'
  BY DEF SnapshotInv, DiskInv, ReaderInv
<1> QED
  BY <1>1 DEF SnapshotInv

LEMMA DaemonStep ==
  ASSUME SnapshotInv, Seals \/ Fills \/ Reorganizes \/ Ticks
  PROVE  SnapshotInv'
<1>1. UNCHANGED <<files, temps, exp, reader>>
  BY DEF Seals, Fills, Reorganizes, Ticks
<1>2. counts' \in Counts /\ counts'.damages = counts.damages
  BY DEF Seals, Fills, Reorganizes, Ticks, SnapshotInv, Typed, Counts
<1>3. blobs' \in Manifests /\ filled' \in 0..Len(blobs') /\ branch' \in {"a", "b"}
  <2>0. blobs \in Manifests /\ filled \in 0..Len(blobs) /\ branch \in {"a", "b"}
    BY DEF SnapshotInv, Typed
  <2>1. CASE Seals
    BY <2>0, <2>1 DEF Seals, Manifests, Blob
  <2>2. CASE Fills
    BY <2>0, <2>2 DEF Fills, Manifests
  <2>3. CASE Reorganizes
    <3>0. PICK common \in 0..(Len(blobs) - 1) : \E sealed \in common..Len(blobs) :
            /\ blobs' = [i \in 1..sealed |-> IF i <= common THEN blobs[i] ELSE <<i, branch'>>]
            /\ filled' = IF filled < common THEN filled ELSE common
      BY <2>3 DEF Reorganizes
    <3>1. PICK sealed \in common..Len(blobs) :
            /\ blobs' = [i \in 1..sealed |-> IF i <= common THEN blobs[i] ELSE <<i, branch'>>]
            /\ filled' = IF filled < common THEN filled ELSE common
      BY <3>0
    <3>2. branch' \in {"a", "b"}
      BY <2>3 DEF Reorganizes
    <3>3. Len(blobs) \in Nat /\ sealed \in Nat /\ common \in Nat
      BY <2>0 DEF Manifests
    <3>4. \A i \in 1..sealed : blobs'[i] \in Blob
      <4> TAKE i \in 1..sealed
      <4>1. CASE i <= common
        BY <2>0, <3>1, <3>3, <4>1 DEF Manifests
      <4>2. CASE ~(i <= common)
        BY <3>1, <3>2, <3>3, <4>2 DEF Blob
      <4> QED
        BY <4>1, <4>2
    <3>5. blobs' \in Seq(Blob) /\ Len(blobs') = sealed
      <4>1. blobs' \in [1..sealed -> Blob]
        BY <3>1, <3>4
      <4> QED
        BY <3>3, <4>1
    <3> QED
      BY <2>0, <3>1, <3>2, <3>3, <3>5 DEF Manifests
  <2>4. CASE Ticks
    BY <2>0, <2>4 DEF Ticks
  <2> QED
    BY <2>1, <2>2, <2>3, <2>4
<1>4. Typed'
  <2>1. clock' \in Nat
    BY DEF Seals, Fills, Reorganizes, Ticks, SnapshotInv, Typed
  <2> QED
    BY <1>1, <1>2, <1>3, <2>1 DEF SnapshotInv, Typed
<1>5. ExportInv' /\ PutInv'
  BY <1>1 DEF SnapshotInv, ExportInv, PutInv, Running, Putting, Puts
<1> QED
  BY <1>1, <1>2, <1>4, <1>5, QuietStep

\* An export that ends, with or without an error.
LEMMA IdleStep ==
  ASSUME OneExport, SnapshotInv, NEW e \in Exporters, exp' = [exp EXCEPT ![e] = Idle],
         UNCHANGED <<blobs, filled, branch, clock, files, reader>>,
         counts' \in Counts,
         counts'.damages = counts.damages
  PROVE  SnapshotInv'
<1>1. Typed' /\ \A o \in Exporters : exp'[o] = Idle
  BY IdleTyped, ExportStep DEF SnapshotInv
<1>2. ExportInv' /\ PutInv'
  BY <1>1, IdleTyped DEF ExportInv, PutInv, Running, Putting
<1> QED
  BY <1>1, <1>2, QuietStep

LEMMA ReadRowsStep ==
  ASSUME OneExport, SnapshotInv, NEW e \in Exporters, ReadRows(e)
  PROVE  SnapshotInv'
<1> DEFINE m == SubSeq(blobs, 1, filled)
           new == [Idle EXCEPT !.pc = "path", !.now = clock, !.manifest = m]
<1>1. m \in Manifests
  BY DEF SnapshotInv, Typed, Manifests
<1> HIDE DEF m
<1>2. new \in Export /\ new.pc = "path"
  <2>1. clock \in Nat
    BY DEF SnapshotInv, Typed
  <2> HIDE DEF Idle
  <2> QED
    BY <1>1, <2>1, IdleTyped DEF Export
<1>3. exp' = [exp EXCEPT ![e] = new]
      /\ UNCHANGED <<blobs, filled, branch, clock, files, temps, reader, counts>>
  BY DEF ReadRows, m
<1>4. counts' \in Counts
  BY <1>3 DEF SnapshotInv, Typed
<1> HIDE DEF new
<1>5. Typed' /\ \A o \in Exporters : exp'[o] = new
  BY <1>2, <1>3, <1>4, ExportStep DEF SnapshotInv
<1>6. ExportInv' /\ PutInv'
  BY <1>2, <1>5 DEF ExportInv, PutInv, Running, Putting
<1> QED
  BY <1>3, <1>5, <1>6, QuietStep

LEMMA NewManifestPathStep ==
  ASSUME OneExport, SnapshotInv, NEW e \in Exporters, NewManifestPath(e)
  PROVE  SnapshotInv'
<1> DEFINE x == exp[e]
           new == [x EXCEPT !.pc = "range", !.at = 1]
<1>1. x \in Export /\ counts \in Counts
  BY DEF SnapshotInv, Typed
<1>2. UNCHANGED <<blobs, filled, branch, clock, files, temps, reader, counts>>
  BY DEF NewManifestPath
<1>3. CASE ManifestPath(x.now) \in DOMAIN files
  <2>1. exp' = [exp EXCEPT ![e] = Idle]
    BY <1>3 DEF NewManifestPath
  <2> QED
    BY <1>1, <1>2, <2>1, IdleStep
<1>4. CASE ManifestPath(x.now) \notin DOMAIN files
  <2>1. exp' = [exp EXCEPT ![e] = new]
    BY <1>4 DEF NewManifestPath
  <2> HIDE DEF x
  <2>2. /\ new \in Export /\ new.pc = "range" /\ new.at = 1 /\ new.now = x.now
        /\ new.manifest = x.manifest
    BY <1>1 DEF Export
  <2>3. Len(x.manifest) \in Nat
    BY <1>1 DEF Export, Manifests
  <2> HIDE DEF new
  <2>4. Typed' /\ \A o \in Exporters : exp'[o] = new
    BY <1>1, <1>2, <2>1, <2>2, ExportStep DEF SnapshotInv
  <2>5. ExportInv' /\ PutInv'
    BY <1>2, <1>4, <2>2, <2>3, <2>4 DEF ExportInv, PutInv, Running, Putting
  <2> QED
    BY <1>2, <2>4, <2>5, QuietStep
<1> QED
  BY <1>3, <1>4

\* An export that begins to put a file: the next one of its manifest.
LEMMA StartPutStep ==
  ASSUME OneExport, SnapshotInv, NEW e \in Exporters, NEW path \in Paths, NEW data \in Datas,
         exp[e].pc = "range", exp[e].at <= Len(exp[e].manifest) + 3,
         exp' = [exp EXCEPT ![e] = StartPut(e, path, data)],
         LET m == exp[e].manifest   n == Len(m)   at == exp[e].at   now == exp[e].now IN
           /\ at <= n => path = RangePath(m[at]) /\ data = <<m[at]>>
           /\ at = n + 1 => path = ManifestPath(now) /\ data = m
           /\ at = n + 2 => path = SignaturePath(now) /\ data = m
           /\ at = n + 3 => path = LatestPath /\ data = <<now, n>>,
         UNCHANGED <<blobs, filled, branch, clock, files, temps, reader, counts>>
  PROVE  SnapshotInv'
<1> DEFINE x == exp[e]
           put == [path |-> path, data |-> data, handle |-> "none"]
           new == [x EXCEPT !.pc = "create", !.put = put]
<1>1. x \in Export /\ counts \in Counts
  BY DEF SnapshotInv, Typed
<1>2. put \in Put /\ put.path = path /\ put.data = data
  BY DEF Put
<1>3. exp' = [exp EXCEPT ![e] = new]
  BY DEF StartPut
<1> HIDE DEF x, put
<1>4. /\ new \in Export /\ new.pc = "create" /\ new.at = x.at /\ new.now = x.now
      /\ new.manifest = x.manifest /\ new.put = put
  BY <1>1, <1>2 DEF Export
<1> HIDE DEF new
<1>5. Typed' /\ \A o \in Exporters : exp'[o] = new
  BY <1>1, <1>3, <1>4, ExportStep DEF SnapshotInv
<1>6. ExportInv'
  BY <1>4, <1>5 DEF SnapshotInv, ExportInv, Running, Putting, x
<1>7. PutInv'
  BY <1>2, <1>4, <1>5 DEF PutInv, Puts, Putting, x
<1> QED
  BY <1>5, <1>6, <1>7, QuietStep

LEMMA ExportRangeStep ==
  ASSUME OneExport, SnapshotInv, NEW e \in Exporters, ExportRange(e)
  PROVE  SnapshotInv'
<1> DEFINE x == exp[e]
           entry == x.manifest[x.at]
           new == [x EXCEPT !.at = x.at + 1]
<1>1. x \in Export /\ counts \in Counts /\ blobs \in Manifests
  BY DEF SnapshotInv, Typed
<1>2. UNCHANGED <<blobs, filled, branch, clock, files, temps, reader, counts>>
      /\ x.pc = "range" /\ x.at <= Len(x.manifest)
  BY DEF ExportRange
<1>3. x.at \in 1..Len(x.manifest) /\ Len(x.manifest) \in Nat /\ x.at \in Nat
  BY <1>1, <1>2 DEF SnapshotInv, ExportInv, Running, Export, Manifests
<1>4. entry \in Blob
  BY <1>1, <1>3 DEF Export, Manifests
<1>5. CASE HasRange(entry)
  <2>1. exp' = [exp EXCEPT ![e] = new]
    BY <1>5 DEF ExportRange
  <2> HIDE DEF x, entry
  <2>2. /\ new \in Export /\ new.pc = "range" /\ new.at = x.at + 1 /\ new.now = x.now
        /\ new.manifest = x.manifest
    BY <1>1, <1>2, <1>3 DEF Export
  <2> HIDE DEF new
  <2>3. Typed' /\ \A o \in Exporters : exp'[o] = new
    BY <1>1, <1>2, <2>1, <2>2, ExportStep DEF SnapshotInv
  <2>4. \A i \in 1..Len(x.manifest) : i < x.at + 1 =>
          RangePath(x.manifest[i]) \in DOMAIN files /\ files[RangePath(x.manifest[i])].whole
    BY <1>2, <1>3, <1>5 DEF SnapshotInv, ExportInv, Running, HasRange, entry, x
  <2>5. ManifestPath(x.now) \notin DOMAIN files
    BY <1>2, <1>3 DEF SnapshotInv, ExportInv, Running, x
  <2>6. ExportInv'
    <3> DEFINE n == Len(x.manifest)
    <3>1. /\ new.at \in 1..(n + 4) /\ ~(new.at > n + 1) /\ ~(new.at > n + 2)
          /\ Len(new.manifest) = n
      BY <1>3, <2>2
    <3> QED
      BY <1>2, <2>2, <2>3, <2>4, <2>5, <3>1 DEF ExportInv, Running, Putting
  <2>7. PutInv'
    BY <2>2, <2>3 DEF PutInv, Putting
  <2> QED
    BY <1>2, <2>3, <2>6, <2>7, QuietStep
<1>6. CASE ~HasRange(entry) /\ (entry[1] > Len(blobs) \/ blobs[entry[1]] # entry)
  <2>1. exp' = [exp EXCEPT ![e] = Idle]
    BY <1>6 DEF ExportRange
  <2> QED
    BY <1>1, <1>2, <2>1, IdleStep
<1>7. CASE ~HasRange(entry) /\ ~(entry[1] > Len(blobs) \/ blobs[entry[1]] # entry)
  <2>1. exp' = [exp EXCEPT ![e] = StartPut(e, RangePath(entry), <<entry>>)]
    BY <1>7 DEF ExportRange
  <2>2. RangePath(entry) \in Paths /\ <<entry>> \in Datas
    BY <1>4 DEF RangePath, Paths, Datas, Manifests
  <2>3. ~(x.at = Len(x.manifest) + 1) /\ ~(x.at = Len(x.manifest) + 2)
        /\ ~(x.at = Len(x.manifest) + 3) /\ x.at <= Len(x.manifest) + 3
    BY <1>3
  <2> QED
    BY <1>2, <2>1, <2>2, <2>3, StartPutStep
<1> QED
  BY <1>5, <1>6, <1>7

LEMMA PutManifestStep ==
  ASSUME OneExport, SnapshotInv, NEW e \in Exporters, PutManifestAndLatest(e)
  PROVE  SnapshotInv'
<1> DEFINE x == exp[e]   m == x.manifest   n == Len(m)
<1>1. x \in Export /\ m \in Manifests /\ n \in Nat /\ x.at \in Nat /\ x.now \in Nat
  BY DEF SnapshotInv, Typed, Export, Manifests
<1>2. UNCHANGED <<blobs, filled, branch, clock, files, temps, reader, counts>>
      /\ x.pc = "range" /\ x.at - n \in 1..3
  BY DEF PutManifestAndLatest
<1>3. x.at <= n + 3 /\ ~(x.at <= n)
  BY <1>1, <1>2
<1>4. /\ ManifestPath(x.now) \in Paths /\ SignaturePath(x.now) \in Paths /\ LatestPath \in Paths
      /\ m \in Datas /\ <<x.now, n>> \in Datas
  BY <1>1 DEF ManifestPath, SignaturePath, Paths, Datas
<1>5. CASE x.at = n + 1
  <2>1. exp' = [exp EXCEPT ![e] = StartPut(e, ManifestPath(x.now), m)]
    BY <1>1, <1>5 DEF PutManifestAndLatest, Published
  <2>2. ~(x.at <= n) /\ ~(x.at = n + 2) /\ ~(x.at = n + 3)
    <3> HIDE DEF n, x
    <3> QED
      BY ONLY <1>1, <1>5
  <2> QED
    BY <1>2, <1>3, <1>4, <1>5, <2>1, <2>2, StartPutStep
<1>6. CASE x.at = n + 2
  <2>1. exp' = [exp EXCEPT ![e] = StartPut(e, SignaturePath(x.now), m)]
    BY <1>1, <1>6 DEF PutManifestAndLatest, Published
  <2>2. ~(x.at <= n) /\ ~(x.at = n + 1) /\ ~(x.at = n + 3)
    <3> HIDE DEF n, x
    <3> QED
      BY ONLY <1>1, <1>6
  <2> QED
    BY <1>2, <1>3, <1>4, <1>6, <2>1, <2>2, StartPutStep
<1>7. CASE x.at = n + 3
  <2>1. exp' = [exp EXCEPT ![e] = StartPut(e, LatestPath, <<x.now, n>>)]
    BY <1>1, <1>7 DEF PutManifestAndLatest, Published
  <2>2. ~(x.at <= n) /\ ~(x.at = n + 1) /\ ~(x.at = n + 2)
    <3> HIDE DEF n, x
    <3> QED
      BY ONLY <1>1, <1>7
  <2> QED
    BY <1>2, <1>3, <1>4, <1>7, <2>1, <2>2, StartPutStep
<1> QED
  BY <1>1, <1>2, <1>5, <1>6, <1>7

LEMMA EndStep ==
  ASSUME OneExport, SnapshotInv, NEW e \in Exporters, Finish(e) \/ Crash(e)
  PROVE  SnapshotInv'
<1>1. exp' = [exp EXCEPT ![e] = Idle] /\ UNCHANGED <<blobs, filled, branch, clock, files, reader>>
  BY DEF Finish, Crash
<1>2. counts' \in Counts /\ counts'.damages = counts.damages
  BY DEF Finish, Crash, SnapshotInv, Typed, Counts
<1> QED
  BY <1>1, <1>2, IdleStep

-----------------------------------------------------------------------------
(* SnapshotWriter::put *)

LEMMA CreateStep ==
  ASSUME OneExport, SnapshotInv, NEW e \in Exporters, Create(e)
  PROVE  SnapshotInv'
<1> DEFINE x == exp[e]
           put == [x.put EXCEPT !.handle = "temp"]
           new == [x EXCEPT !.pc = "write", !.put = put]
<1>1. x \in Export /\ counts \in Counts /\ x.put \in Put
  BY DEF SnapshotInv, Typed, Export
<1>2. /\ UNCHANGED <<blobs, filled, branch, clock, files, reader, counts>>
      /\ temps' = With(temps, x.put.path, Cut) /\ x.pc = "create"
  BY DEF Create
<1>3. exp' = [exp EXCEPT ![e] = new]
  BY <1>1 DEF Create, SnapshotInv, Typed, Export, Put
<1> HIDE DEF x
<1>4. put \in Put /\ put.path = x.put.path /\ put.data = x.put.data /\ put.handle = "temp"
  BY <1>1 DEF Put
<1> HIDE DEF put
<1>5. /\ new \in Export /\ new.pc = "write" /\ new.at = x.at /\ new.now = x.now
      /\ new.manifest = x.manifest /\ new.put = put
  BY <1>1, <1>4 DEF Export
<1> HIDE DEF new
<1>6. Typed' /\ \A o \in Exporters : exp'[o] = new
  BY <1>1, <1>2, <1>3, <1>5, ExportStep DEF SnapshotInv
<1>7. x.put.path \in DOMAIN temps' /\ temps'[x.put.path] = Cut
  BY <1>2 DEF With
<1>8. ExportInv'
  BY <1>2, <1>5, <1>6 DEF SnapshotInv, ExportInv, Running, Putting, x
<1>9. PutInv'
  <2> DEFINE m == x.manifest   n == Len(m)
  <2>1. /\ x.at <= n => Puts(x, RangePath(m[x.at]), <<m[x.at]>>)
        /\ x.at = n + 1 => Puts(x, ManifestPath(x.now), m)
        /\ x.at = n + 2 => Puts(x, SignaturePath(x.now), m)
        /\ x.at = n + 3 => Puts(x, LatestPath, <<x.now, n>>)
    BY <1>2 DEF SnapshotInv, PutInv, Putting, x
  <2>2. \A p, d : Puts(x, p, d) => Puts(new, p, d)
    BY <1>4, <1>5 DEF Puts
  <2>3. new.put.handle = "temp" /\ new.put.path = x.put.path
    BY <1>4, <1>5
  <2> QED
    BY <1>5, <1>6, <1>7, <2>1, <2>2, <2>3 DEF PutInv, Putting
<1> QED
  BY <1>2, <1>6, <1>8, <1>9, QuietStep

LEMMA WriteStep ==
  ASSUME OneExport, SnapshotInv, NEW e \in Exporters, Write(e)
  PROVE  SnapshotInv'
<1> DEFINE x == exp[e]
           new == [x EXCEPT !.pc = "rename"]
<1>1. x \in Export /\ counts \in Counts
  BY DEF SnapshotInv, Typed
<1>2. x.pc = "write" /\ UNCHANGED <<blobs, filled, branch, clock, reader, counts>>
  BY DEF Write
<1>3. x.put.handle = "temp" /\ temps[x.put.path] = Cut
  BY <1>2 DEF SnapshotInv, PutInv, Putting
<1>4. files' = files /\ temps' = With(temps, x.put.path, Whole(x.put.data))
  BY <1>3 DEF Write, Written, Cut
<1>5. exp' = [exp EXCEPT ![e] = new]
  BY DEF Write
<1> HIDE DEF x
<1>6. /\ new \in Export /\ new.pc = "rename" /\ new.at = x.at /\ new.now = x.now
      /\ new.manifest = x.manifest /\ new.put = x.put
  BY <1>1 DEF Export
<1> HIDE DEF new
<1>7. Typed' /\ \A o \in Exporters : exp'[o] = new
  BY <1>1, <1>2, <1>5, <1>6, ExportStep DEF SnapshotInv
<1>8. x.put.path \in DOMAIN temps' /\ temps'[x.put.path] = Whole(x.put.data)
  BY <1>4 DEF With
<1>9. ExportInv'
  BY <1>2, <1>4, <1>6, <1>7 DEF SnapshotInv, ExportInv, Running, Putting, x
<1>10. PutInv'
  BY <1>2, <1>6, <1>7, <1>8 DEF SnapshotInv, PutInv, Puts, Putting, x
<1> QED
  BY <1>2, <1>4, <1>7, <1>9, <1>10, QuietStep

LEMMA PathFacts ==
  \A b, t, u :
    /\ RangePath(b) # ManifestPath(t) /\ RangePath(b) # SignaturePath(t)
    /\ RangePath(b) # LatestPath /\ ManifestPath(t) # SignaturePath(u)
    /\ ManifestPath(t) # LatestPath /\ SignaturePath(t) # LatestPath
    /\ (RangePath(b) = RangePath(t) => b = t)
    /\ (ManifestPath(t) = ManifestPath(u) => t = u)
    /\ (SignaturePath(t) = SignaturePath(u) => t = u)
    /\ RangePath(b)[1] = "range"
  BY DEF RangePath, ManifestPath, SignaturePath, LatestPath

\* What a rename does: one file of the directory is new, whole, and the next one of
\* the manifest.
Renamed(e, new) ==
  LET x == exp[e] IN
  /\ x.pc = "rename" /\ x \in Export
  /\ DOMAIN files' = DOMAIN files \cup {x.put.path}
  /\ \A p \in DOMAIN files : p # x.put.path => files'[p] = files[p]
  /\ files'[x.put.path].whole /\ files'[x.put.path].data = x.put.data
  /\ \A o \in Exporters : exp'[o] = new
  /\ new \in Export /\ new.pc = "range" /\ new.at = x.at + 1 /\ new.now = x.now
  /\ new.manifest = x.manifest
  /\ UNCHANGED <<reader, counts>> /\ Typed'

LEMMA RenamedLemma ==
  ASSUME OneExport, SnapshotInv, NEW e \in Exporters, Rename(e)
  PROVE  \E new : Renamed(e, new)
<1> DEFINE x == exp[e]
           k == x.at + 1
           new == [x EXCEPT !.pc = "range", !.at = k, !.put = NoPut]
<1>1. x \in Export /\ k \in Nat
  BY DEF SnapshotInv, Typed, Export
<1>2. x.pc = "rename" /\ UNCHANGED <<blobs, filled, branch, clock, reader, counts>>
  BY DEF Rename
<1>3. x.put.path \in DOMAIN temps /\ temps[x.put.path] = Whole(x.put.data)
  BY <1>2 DEF SnapshotInv, PutInv, Putting
<1>4. files' = With(files, x.put.path, Whole(x.put.data))
  BY <1>3 DEF Rename
<1>5. \A o \in Exporters : o = e
  BY DEF OneExport
<1>6. exp' = [o \in Exporters |-> new]
  BY <1>3, <1>5 DEF Rename
<1> HIDE DEF x, k
<1>7. /\ new \in Export /\ new.pc = "range" /\ new.at = k /\ new.now = x.now
      /\ new.manifest = x.manifest
  <2>1. NoPut \in Put
    BY IdleTyped
  <2> QED
    BY <1>1, <2>1 DEF Export
<1> HIDE DEF new
<1>8. \A o \in Exporters : exp'[o] = new
  BY <1>6
<1>9. Typed'
  BY <1>2, <1>6, <1>7 DEF SnapshotInv, Typed
<1>10. /\ DOMAIN files' = DOMAIN files \cup {x.put.path}
       /\ \A p \in DOMAIN files : p # x.put.path => files'[p] = files[p]
       /\ files'[x.put.path] = Whole(x.put.data)
  BY <1>4 DEF With
<1>11. files'[x.put.path].whole /\ files'[x.put.path].data = x.put.data
  BY <1>10 DEF Whole
<1>12. Renamed(e, new)
  BY <1>1, <1>2, <1>7, <1>8, <1>9, <1>10, <1>11 DEF Renamed, x, k
<1> QED
  BY <1>12

\* The files that a rename keeps, and what it adds.
LEMMA RenameStep ==
  ASSUME OneExport, SnapshotInv, NEW e \in Exporters, Rename(e)
  PROVE  /\ SnapshotInv'
         /\ \A t : ManifestPath(t) \in DOMAIN files => files'[ManifestPath(t)] = files[ManifestPath(t)]
<1>1. PICK new : Renamed(e, new)
  BY RenamedLemma
<1> DEFINE x == exp[e]   m == x.manifest   n == Len(m)   at == x.at   path == x.put.path
           data == x.put.data   now == x.now
<1>2. /\ x.pc = "rename" /\ m \in Manifests /\ n \in Nat /\ at \in Nat /\ now \in Nat
      /\ DOMAIN files' = DOMAIN files \cup {path}
      /\ \A p \in DOMAIN files : p # path => files'[p] = files[p]
      /\ files'[path].whole /\ files'[path].data = data
      /\ \A o \in Exporters : exp'[o] = new
      /\ new.pc = "range" /\ new.at = at + 1 /\ new.now = now /\ new.manifest = m
      /\ UNCHANGED <<reader, counts>> /\ Typed'
  BY <1>1 DEF Renamed, Export, Manifests
<1>3. /\ at \in 1..(n + 3)
      /\ \A i \in 1..n : i < at => RangePath(m[i]) \in DOMAIN files /\ files[RangePath(m[i])].whole
      /\ at <= n + 1 => ManifestPath(now) \notin DOMAIN files
      /\ at > n + 1 => ManifestPath(now) \in DOMAIN files /\ files[ManifestPath(now)].data = m
      /\ at > n + 2 => SignaturePath(now) \in DOMAIN files
  BY <1>2 DEF SnapshotInv, ExportInv, Running, Putting
<1>4. /\ at <= n => path = RangePath(m[at]) /\ data = <<m[at]>>
      /\ at = n + 1 => path = ManifestPath(now) /\ data = m
      /\ at = n + 2 => path = SignaturePath(now) /\ data = m
      /\ at = n + 3 => path = LatestPath /\ data = <<now, n>>
  BY <1>2 DEF SnapshotInv, PutInv, Puts, Putting
<1> HIDE DEF x, m, n, at, path, data, now
\* A manifest is never replaced.
<1>5. \A t : ManifestPath(t) \in DOMAIN files => ManifestPath(t) # path
  BY <1>2, <1>3, <1>4, PathFacts
<1>6. \A t : ManifestPath(t) \in DOMAIN files =>
               ManifestPath(t) \in DOMAIN files' /\ files'[ManifestPath(t)] = files[ManifestPath(t)]
  BY <1>2, <1>5
<1>7. \A p \in DOMAIN files : p \in DOMAIN files' /\ (files[p].whole => files'[p].whole)
  BY <1>2
<1>8. DiskInv'
  <2>1. \A p \in DOMAIN files' : ~files'[p].whole => p[1] = "range" /\ counts'.damages # 0
    BY <1>2 DEF SnapshotInv, DiskInv
  <2>2. \A b : RangePath(b) \in DOMAIN files' /\ files'[RangePath(b)].whole
                 => files'[RangePath(b)].data = <<b>>
    <3> SUFFICES ASSUME NEW b, RangePath(b) \in DOMAIN files', files'[RangePath(b)].whole
                 PROVE  files'[RangePath(b)].data = <<b>>
      OBVIOUS
    <3>1. CASE RangePath(b) = path
      BY <1>2, <1>3, <1>4, <3>1, PathFacts
    <3>2. CASE RangePath(b) # path
      BY <1>2, <3>2 DEF SnapshotInv, DiskInv
    <3> QED
      BY <3>1, <3>2
  <2>3. \A t : SignaturePath(t) \in DOMAIN files' =>
          /\ ManifestPath(t) \in DOMAIN files'
          /\ files'[ManifestPath(t)].data \in Manifests
          /\ files'[SignaturePath(t)].data = files'[ManifestPath(t)].data
          /\ \A i \in 1..Len(files'[ManifestPath(t)].data) :
               RangePath(files'[ManifestPath(t)].data[i]) \in DOMAIN files'
    <3> SUFFICES ASSUME NEW t, SignaturePath(t) \in DOMAIN files'
                 PROVE  /\ ManifestPath(t) \in DOMAIN files'
                        /\ files'[ManifestPath(t)].data \in Manifests
                        /\ files'[SignaturePath(t)].data = files'[ManifestPath(t)].data
                        /\ \A i \in 1..Len(files'[ManifestPath(t)].data) :
                             RangePath(files'[ManifestPath(t)].data[i]) \in DOMAIN files'
      OBVIOUS
    <3>1. CASE SignaturePath(t) = path
      <4>1. at = n + 2 /\ t = now
        BY <1>2, <1>3, <1>4, <3>1, PathFacts
      <4>2. ManifestPath(t) \in DOMAIN files /\ files[ManifestPath(t)].data = m
        BY <1>2, <1>3, <4>1
      <4>3. files'[SignaturePath(t)].data = m
        BY <1>2, <1>4, <3>1, <4>1
      <4>4. \A i \in 1..n : RangePath(m[i]) \in DOMAIN files'
        BY <1>2, <1>3, <4>1
      <4> QED
        BY <1>2, <1>6, <4>2, <4>3, <4>4 DEF n
    <3>2. CASE SignaturePath(t) # path
      <4>1. SignaturePath(t) \in DOMAIN files
            /\ files'[SignaturePath(t)] = files[SignaturePath(t)]
        BY <1>2, <3>2
      <4> QED
        BY <1>6, <1>7, <4>1 DEF SnapshotInv, DiskInv
    <3> QED
      BY <3>1, <3>2
  <2>4. LatestPath \in DOMAIN files' =>
          LET t == files'[LatestPath].data[1] IN
          /\ files'[LatestPath].data \in Nat \X Nat
          /\ SignaturePath(t) \in DOMAIN files'
          /\ files'[LatestPath].data[2] = Len(files'[ManifestPath(t)].data)
    <3>1. CASE LatestPath = path
      <4>1. at = n + 3
        BY <1>2, <1>3, <1>4, <3>1, PathFacts
      <4>2. files'[LatestPath].data = <<now, n>>
        BY <1>2, <1>4, <3>1, <4>1
      <4>3. SignaturePath(now) \in DOMAIN files'
        BY <1>2, <1>3, <4>1
      <4>4. files'[ManifestPath(now)].data = m
        BY <1>2, <1>3, <1>6, <4>1
      <4> QED
        BY <1>2, <4>2, <4>3, <4>4 DEF n
    <3>2. CASE LatestPath # path /\ LatestPath \in DOMAIN files'
      <4>1. LatestPath \in DOMAIN files /\ files'[LatestPath] = files[LatestPath]
        BY <1>2, <3>2
      <4>2. SignaturePath(files[LatestPath].data[1]) \in DOMAIN files
            /\ ManifestPath(files[LatestPath].data[1]) \in DOMAIN files
        BY <4>1 DEF SnapshotInv, DiskInv
      <4> QED
        BY <1>6, <1>7, <4>1, <4>2 DEF SnapshotInv, DiskInv
    <3> QED
      BY <3>1, <3>2
  <2> QED
    BY <2>1, <2>2, <2>3, <2>4 DEF DiskInv
<1>9. ExportInv'
  <2>1. at + 1 \in 1..(n + 4)
    BY <1>2, <1>3
  <2>2. \A i \in 1..n : i < at + 1 => RangePath(m[i]) \in DOMAIN files' /\ files'[RangePath(m[i])].whole
    <3> SUFFICES ASSUME NEW i \in 1..n, i < at + 1
                 PROVE  RangePath(m[i]) \in DOMAIN files' /\ files'[RangePath(m[i])].whole
      OBVIOUS
    <3>1. CASE i < at
      BY <1>3, <1>7, <3>1
    <3>2. CASE i = at
      BY <1>2, <1>4, <3>2
    <3> QED
      BY <1>2, <3>1, <3>2
  <2>3. at + 1 <= n + 1 => ManifestPath(now) \notin DOMAIN files'
    BY <1>2, <1>3, <1>4, PathFacts
  <2>4. at + 1 > n + 1 => ManifestPath(now) \in DOMAIN files' /\ files'[ManifestPath(now)].data = m
    <3>1. CASE at = n + 1
      BY <1>2, <1>4, <3>1
    <3>2. CASE at > n + 1
      BY <1>3, <1>6, <3>2
    <3> QED
      BY <1>2, <3>1, <3>2
  <2>5. at + 1 > n + 2 => SignaturePath(now) \in DOMAIN files'
    BY <1>2, <1>3, <1>4
  <2> QED
    BY <1>2, <2>1, <2>2, <2>3, <2>4, <2>5 DEF ExportInv, Running, Putting, n
<1>10. PutInv'
  BY <1>2 DEF PutInv, Putting
<1>11. ReaderInv'
  BY <1>2, <1>6, <1>7 DEF SnapshotInv, ReaderInv, DiskInv
<1> QED
  BY <1>2, <1>6, <1>8, <1>9, <1>10, <1>11 DEF SnapshotInv

-----------------------------------------------------------------------------
(* Damage and the reader *)

LEMMA DamageStep ==
  ASSUME SnapshotInv, Damage
  PROVE  SnapshotInv' /\ \A t : ManifestPath(t) \in DOMAIN files =>
                                  files'[ManifestPath(t)] = files[ManifestPath(t)]
<1>1. PICK path \in DOMAIN files : path[1] = "range" /\ files' = [files EXCEPT ![path] = Cut]
  BY DEF Damage
<1>2. /\ UNCHANGED <<blobs, filled, branch, clock, temps, exp, reader>>
      /\ \A e \in Exporters : exp[e].pc = "idle"
  BY DEF Damage
<1>3. counts' \in Counts /\ counts'.damages # 0
  BY DEF Damage, SnapshotInv, Typed, Counts
<1>4. DOMAIN files' = DOMAIN files /\ \A p \in DOMAIN files : p # path => files'[p] = files[p]
  BY <1>1
<1>5. ~files'[path].whole
  BY <1>1 DEF Cut
<1>6. \A t : ManifestPath(t) # path /\ SignaturePath(t) # path /\ LatestPath # path
  BY <1>1 DEF ManifestPath, SignaturePath, LatestPath
<1>7. Typed'
  BY <1>2, <1>3 DEF SnapshotInv, Typed
<1>8. DiskInv'
  <2>1. \A p \in DOMAIN files' : ~files'[p].whole => p[1] = "range" /\ counts'.damages # 0
    BY <1>1, <1>3, <1>4 DEF SnapshotInv, DiskInv
  <2>2. \A b : RangePath(b) \in DOMAIN files' /\ files'[RangePath(b)].whole
                 => files'[RangePath(b)].data = <<b>>
    BY <1>4, <1>5 DEF SnapshotInv, DiskInv
  <2>3. \A t : SignaturePath(t) \in DOMAIN files' =>
          /\ ManifestPath(t) \in DOMAIN files'
          /\ files'[ManifestPath(t)].data \in Manifests
          /\ files'[SignaturePath(t)].data = files'[ManifestPath(t)].data
          /\ \A i \in 1..Len(files'[ManifestPath(t)].data) :
               RangePath(files'[ManifestPath(t)].data[i]) \in DOMAIN files'
    BY <1>4, <1>6 DEF SnapshotInv, DiskInv
  <2>4. LatestPath \in DOMAIN files' =>
          LET t == files'[LatestPath].data[1] IN
          /\ files'[LatestPath].data \in Nat \X Nat
          /\ SignaturePath(t) \in DOMAIN files'
          /\ files'[LatestPath].data[2] = Len(files'[ManifestPath(t)].data)
    BY <1>4, <1>6 DEF SnapshotInv, DiskInv
  <2> QED
    BY <2>1, <2>2, <2>3, <2>4 DEF DiskInv
<1>9. ExportInv' /\ PutInv'
  BY <1>2 DEF ExportInv, PutInv, Running, Putting
<1>10. ReaderInv'
  BY <1>2, <1>3, <1>4, <1>6 DEF SnapshotInv, ReaderInv, DiskInv
<1> QED
  BY <1>4, <1>6, <1>7, <1>8, <1>9, <1>10 DEF SnapshotInv

\* A file that is there is whole, except for damage.
LEMMA FetchedLemma ==
  ASSUME SnapshotInv, NEW path \in DOMAIN files, ~Fetched(path)
  PROVE  path[1] = "range" /\ counts.damages # 0
  BY DEF SnapshotInv, DiskInv, Fetched

LEMMA ReaderStep ==
  ASSUME SnapshotInv, Reads
  PROVE  SnapshotInv'
<1>1. UNCHANGED <<blobs, filled, branch, clock, files, temps, exp, counts>>
  BY DEF Reads, ReadLatest, ReadManifest, ReadSignature, ReadRange
<1>2. reader \in Reader
  BY DEF SnapshotInv, Typed
<1>3. SUFFICES reader' \in Reader /\ ReaderInv'
  <2>1. DiskInv' /\ ExportInv' /\ PutInv'
    BY <1>1 DEF SnapshotInv, DiskInv, ExportInv, PutInv, Running, Putting, Puts
  <2> QED
    BY <1>1, <2>1 DEF SnapshotInv, Typed
<1> DEFINE t == reader.time
           failed == [reader EXCEPT !.pc = "failed"]
<1>4. ASSUME reader' = failed, counts.damages # 0 PROVE reader' \in Reader /\ ReaderInv'
  <2>1. reader' \in Reader /\ reader'.pc = "failed"
    BY <1>2, <1>4 DEF Reader
  <2> QED
    BY <1>1, <1>4, <2>1 DEF ReaderInv
<1>5. CASE ReadLatest
  <2>1. Fetched(LatestPath)
    BY <1>5, FetchedLemma DEF ReadLatest, LatestPath
  <2> DEFINE time == files[LatestPath].data[1]   sealed == files[LatestPath].data[2]
  <2>2. /\ files[LatestPath].data \in Nat \X Nat
        /\ SignaturePath(time) \in DOMAIN files
        /\ sealed = Len(files[ManifestPath(time)].data)
    BY <2>1 DEF SnapshotInv, DiskInv, Fetched
  <2>3. time \in Nat /\ sealed \in Nat
    BY <2>2
  <2>4. reader' = [reader EXCEPT !.pc = "manifest", !.time = time, !.sealed_through = sealed]
    BY <1>5, <2>1 DEF ReadLatest
  <2> HIDE DEF time, sealed
  <2>5. /\ reader' \in Reader /\ reader'.pc = "manifest" /\ reader'.time = time
        /\ reader'.sealed_through = sealed
    BY <1>2, <2>3, <2>4 DEF Reader
  <2> QED
    BY <1>1, <2>2, <2>5 DEF ReaderInv
<1>6. CASE ReadManifest
  <2>1. /\ SignaturePath(t) \in DOMAIN files /\ ManifestPath(t) \in DOMAIN files
        /\ reader.sealed_through = Len(files[ManifestPath(t)].data)
        /\ files[ManifestPath(t)].data \in Manifests
    BY <1>6 DEF ReadManifest, SnapshotInv, ReaderInv, DiskInv
  <2>2. Fetched(ManifestPath(t))
    BY <2>1, FetchedLemma DEF ManifestPath
  <2> DEFINE m == files[ManifestPath(t)].data
  <2>3. reader' = [reader EXCEPT !.pc = "signature", !.manifest = m]
    BY <1>6, <2>2 DEF ReadManifest
  <2>4. m \in Manifests /\ reader.sealed_through = Len(m)
    BY <2>1
  <2> HIDE DEF m
  <2>5. /\ reader' \in Reader /\ reader'.pc = "signature" /\ reader'.time = t
        /\ reader'.sealed_through = reader.sealed_through /\ reader'.manifest = m
    BY <1>2, <2>3, <2>4 DEF Reader
  <2> QED
    BY <1>1, <2>1, <2>4, <2>5 DEF ReaderInv, m
<1>7. CASE ReadSignature
  <2>1. /\ SignaturePath(t) \in DOMAIN files /\ ManifestPath(t) \in DOMAIN files
        /\ reader.sealed_through = Len(files[ManifestPath(t)].data)
        /\ reader.manifest = files[ManifestPath(t)].data
        /\ files[SignaturePath(t)].data = reader.manifest
        /\ \A i \in 1..Len(reader.manifest) : RangePath(reader.manifest[i]) \in DOMAIN files
    BY <1>7 DEF ReadSignature, SnapshotInv, ReaderInv, DiskInv
  <2>2. Fetched(SignaturePath(t))
    BY <2>1, FetchedLemma DEF SignaturePath
  <2>3. reader' = [reader EXCEPT !.pc = "ranges", !.at = 1]
    BY <1>7, <2>1, <2>2 DEF ReadSignature
  <2>4. /\ reader' \in Reader /\ reader'.pc = "ranges" /\ reader'.at = 1
        /\ reader'.manifest = reader.manifest
    BY <1>2, <2>3 DEF Reader
  <2> QED
    BY <1>1, <2>1, <2>4 DEF ReaderInv
<1>8. CASE ReadRange
  <2> DEFINE m == reader.manifest   entry == m[reader.at]
  <2>1. /\ reader.pc = "ranges" /\ reader.at \in Nat /\ reader.at # 0 /\ Len(m) \in Nat
        /\ \A i \in 1..Len(m) : RangePath(m[i]) \in DOMAIN files
    BY <1>2, <1>8 DEF ReadRange, SnapshotInv, ReaderInv, Reader, Manifests
  <2>2. CASE reader.at > Len(m)
    <3>1. reader' = Waiting
      BY <1>8, <2>2 DEF ReadRange
    <3>2. Waiting \in Reader /\ Waiting.pc = "latest"
      BY DEF Waiting, Reader, Manifests
    <3> QED
      BY <1>1, <3>1, <3>2 DEF ReaderInv
  <2>3. CASE ~(reader.at > Len(m))
    <3>1. RangePath(entry) \in DOMAIN files
      BY <2>1, <2>3
    <3>2. CASE Fetched(RangePath(entry))
      <4>1. files[RangePath(entry)].data = <<entry>>
        BY <3>2 DEF Fetched, SnapshotInv, DiskInv
      <4>2. reader' = [reader EXCEPT !.at = reader.at + 1]
        BY <1>8, <2>3, <3>2, <4>1 DEF ReadRange
      <4>3. /\ reader' \in Reader /\ reader'.pc = "ranges" /\ reader'.at = reader.at + 1
            /\ reader'.manifest = reader.manifest
        BY <1>2, <2>1, <4>2 DEF Reader
      <4> QED
        BY <1>1, <2>1, <4>3 DEF ReaderInv
    <3>3. CASE ~Fetched(RangePath(entry))
      <4>1. counts.damages # 0
        BY <3>1, <3>3, FetchedLemma
      <4>2. reader' = failed
        BY <1>8, <2>3, <3>3 DEF ReadRange
      <4> QED
        BY <1>4, <4>1, <4>2
    <3> QED
      BY <3>2, <3>3
  <2> QED
    BY <2>2, <2>3
<1> QED
  BY <1>5, <1>6, <1>7, <1>8 DEF Reads

-----------------------------------------------------------------------------
(* The theorems *)

LEMMA StepLemma ==
  ASSUME OneExport
  PROVE  SnapshotInv /\ [Next]_vars => SnapshotInv'
<1> SUFFICES ASSUME SnapshotInv, [Next]_vars PROVE SnapshotInv'
  OBVIOUS
<1>1. CASE UNCHANGED vars
  BY <1>1 DEF vars, SnapshotInv, Typed, DiskInv, ExportInv, PutInv, ReaderInv, Running, Putting,
              Puts
<1>2. CASE Seals \/ Fills \/ Reorganizes \/ Ticks
  BY <1>2, DaemonStep
<1>3. CASE Damage
  BY <1>3, DamageStep
<1>4. CASE Reads
  BY <1>4, ReaderStep
<1>5. ASSUME NEW e \in Exporters, Exports(e) PROVE SnapshotInv'
  BY <1>5, ReadRowsStep, NewManifestPathStep, ExportRangeStep, PutManifestStep, EndStep,
     CreateStep, WriteStep, RenameStep DEF Exports
<1> QED
  BY <1>1, <1>2, <1>3, <1>4, <1>5 DEF Next

LEMMA Invariant ==
  ASSUME OneExport
  PROVE  Spec => []SnapshotInv
<1>1. SnapshotInv /\ [Next]_vars => SnapshotInv'
  BY StepLemma
<1> QED
  BY <1>1, InitLemma, PTL DEF Spec

\* "Thus a reader sees the old file or the new file, never a part of one"
\* (SnapshotWriter): also when exports crash at any step.
THEOREM FilesCorrect ==
  ASSUME OneExport
  PROVE  Spec => []NoPartOfAFile
<1>1. SnapshotInv => NoPartOfAFile
  BY DEF SnapshotInv, DiskInv, NoPartOfAFile
<1> QED
  BY <1>1, Invariant, PTL

\* A reader that took latest.json at any time gets a manifest that verifies and
\* each of its ranges, while later exports run or crash and the index changes
\* (SnapshotWriter::export, HttpSource::manifest).
THEOREM ReaderCorrect ==
  ASSUME OneExport
  PROVE  Spec => []ReaderIsServed
<1>1. SnapshotInv => ReaderIsServed
  BY DEF SnapshotInv, ReaderInv, ReaderIsServed
<1> QED
  BY <1>1, Invariant, PTL

\* The files of the directory change only by a rename and by damage.
LEMMA FilesChange ==
  ASSUME OneExport, SnapshotInv, [Next]_vars
  PROVE  files' = files \/ Damage \/ \E e \in Exporters : Rename(e)
<1>1. ASSUME NEW e \in Exporters, Write(e) PROVE files' = files
  BY <1>1 DEF Write, SnapshotInv, PutInv, Putting
<1> QED
  BY <1>1 DEF Next, vars, Seals, Fills, Reorganizes, Ticks, Reads, ReadLatest, ReadManifest,
              ReadSignature, ReadRange, Exports, ReadRows, NewManifestPath, ExportRange,
              PutManifestAndLatest, Finish, Create, Crash

\* "The writer never replaces a manifest" (SnapshotWriter::new_manifest_path):
\* two exports of one second, one of which may have crashed, do not share one.
THEOREM ManifestsCorrect ==
  ASSUME OneExport
  PROVE  Spec => ManifestsAreNeverReplaced
<1>1. SnapshotInv /\ [Next]_vars =>
        [\A time \in 0..MaxTime : ManifestPath(time) \in DOMAIN files =>
           files'[ManifestPath(time)] = files[ManifestPath(time)]]_vars
  BY FilesChange, DamageStep, RenameStep
<1> QED
  BY <1>1, Invariant, PTL DEF Spec, ManifestsAreNeverReplaced

\* "`latest.json` points only at files that are present" (SnapshotWriter::export):
\* when an export renames latest.json, what it names is complete, whatever the
\* daemon did to the index since the rows were read.
THEOREM LatestCorrect ==
  ASSUME OneExport
  PROVE  Spec => LatestIsPublishedLast
<1>1. SnapshotInv /\ [Next]_vars /\ SnapshotInv' =>
        [\A e \in Exporters :
           (exp[e].pc = "rename" /\ exp[e].put.path = LatestPath /\ files' # files)
             => Complete(exp[e].now)']_vars
  <2> SUFFICES ASSUME SnapshotInv, [Next]_vars, SnapshotInv', NEW e \in Exporters,
                      exp[e].pc = "rename", exp[e].put.path = LatestPath, files' # files
               PROVE  Complete(exp[e].now)'
    OBVIOUS
  <2>1. Rename(e)
    BY FilesChange DEF OneExport, Damage
  <2>2. PICK new : Renamed(e, new)
    BY <2>1, RenamedLemma
  <2> DEFINE x == exp[e]   m == x.manifest   n == Len(m)
  <2>3. x \in Export /\ m \in Manifests /\ n \in Nat /\ x.at \in Nat
    BY <2>2 DEF Renamed, Export, Manifests
  <2>4. x.at \in 1..(n + 3)
    BY DEF SnapshotInv, ExportInv, Running, Putting
  <2>5. x.at = n + 3
    <3>1. /\ x.at <= n => x.put.path = RangePath(m[x.at])
          /\ x.at = n + 1 => x.put.path = ManifestPath(x.now)
          /\ x.at = n + 2 => x.put.path = SignaturePath(x.now)
      BY DEF SnapshotInv, PutInv, Puts, Putting
    <3>2. x.put.path = LatestPath
      OBVIOUS
    <3> HIDE DEF n, m, x
    <3>3. ~(x.at <= n) /\ x.at # n + 1 /\ x.at # n + 2
      BY <3>1, <3>2, PathFacts
    <3> QED
      BY ONLY <2>3, <2>4, <3>3
  <2>6. exp'[e].pc = "range" /\ exp'[e].at = n + 4 /\ exp'[e].manifest = m /\ exp'[e].now = x.now
    BY <2>2, <2>3, <2>5 DEF Renamed
  <2>7. Len(exp'[e].manifest) = n /\ exp'[e].at > n + 1 /\ exp'[e].at > n + 2
        /\ \A i \in 1..n : i < exp'[e].at
    BY <2>3, <2>6
  <2> HIDE DEF n, m, x
  <2>8. /\ \A i \in 1..n : /\ RangePath(m[i]) \in DOMAIN files'
                           /\ files'[RangePath(m[i])].whole
        /\ ManifestPath(x.now) \in DOMAIN files' /\ files'[ManifestPath(x.now)].data = m
        /\ SignaturePath(x.now) \in DOMAIN files'
    BY <2>6, <2>7 DEF SnapshotInv, ExportInv, Running
  <2>9. \A i \in 1..n : files'[RangePath(m[i])].data = <<m[i]>>
    BY <2>8 DEF SnapshotInv, DiskInv
  <2>10. files'[SignaturePath(x.now)].data = m
    BY <2>8 DEF SnapshotInv, DiskInv
  <2>11. files'[ManifestPath(x.now)].whole /\ files'[SignaturePath(x.now)].whole
    BY <2>8 DEF SnapshotInv, DiskInv, ManifestPath, SignaturePath
  <2>12. files'[LatestPath].data[2] = n
    <3>1. x.put.data = <<x.now, n>> /\ x.put.path = LatestPath
      BY <2>5 DEF SnapshotInv, PutInv, Puts, Putting, n, m, x
    <3>2. files'[LatestPath].data = x.put.data
      BY <2>2, <3>1 DEF Renamed, x
    <3> QED
      BY <3>1, <3>2
  <2> QED
    BY <2>6, <2>8, <2>9, <2>10, <2>11, <2>12 DEF Complete, Fetched, n, x
<1> QED
  BY <1>1, Invariant, PTL DEF Spec, LatestIsPublishedLast

\* PublicationRule of the module SnapshotExport: while exports do not overlap,
\* SnapshotWriter publishes in its order, with a crash anywhere.
THEOREM PublicationCorrect ==
  ASSUME OneExport PROVE Spec => PublicationRule
<1> QED
  BY FilesCorrect, ManifestsCorrect, LatestCorrect, PTL DEF PublicationRule
=============================================================================
