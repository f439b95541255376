--------------------------- MODULE SnapshotExport ---------------------------
(***************************************************************************)
(* ztreamerd export-snapshot: the export of the sealed ranges of an index  *)
(* into a snapshot directory (SnapshotExport and SnapshotWriter of crate   *)
(* ztreamer-replicator), and an HTTP reader of the directory (HttpSource   *)
(* of crate ztreamer-import).                                              *)
(*                                                                         *)
(* The index is the list of its sealed blobs and the number of the first   *)
(* of them that have a range_meta row.  A blob is <<range, branch>>; its   *)
(* digest, its length and the name of its range file follow from it.  A    *)
(* file is whole, or cut when only a part of its bytes is there.  The      *)
(* daemon moves the index between any two steps of an export, and the      *)
(* process can end after each of them.                                     *)
(***************************************************************************)
EXTENDS Integers, Sequences, Functions

CONSTANTS
  Exporters,    \* the export processes that can run at the same time
  MaxRanges,    \* bound: the sealed ranges
  MaxTime,      \* bound: the clock, in seconds
  MaxReorgs,    \* bound: the deep reorganizations
  MaxCrashes,   \* bound: the exports that end before their last step
  MaxDamages    \* bound: the range files that lose bytes after an export

ASSUME ExportAssumption ==
  MaxRanges \in Nat /\ MaxTime \in Nat /\ MaxReorgs \in Nat /\ MaxCrashes \in Nat

VARIABLES
  blobs,    \* the sealed ranges of the index
  filled,   \* the first of them that have a row
  branch,   \* the branch that the next sealed range is on
  clock,    \* the time to the second, as in the name of a manifest
  files,    \* the files at their path
  temps,    \* the files at their path with the extension tmp
  exp,      \* the locals of each export
  reader,   \* the locals of the reader
  counts    \* the reorganizations, crashes and damages so far

disk_vars == <<files, temps>>
vars == <<blobs, filled, branch, clock, files, temps, exp, reader, counts>>

RangePath(blob) == <<"range", blob>>
ManifestPath(time) == <<"manifest", time>>
SignaturePath(time) == <<"signature", time>>
LatestPath == <<"latest", 0>>

Whole(data) == [whole |-> TRUE, data |-> data]
Cut == [whole |-> FALSE, data |-> <<>>]
With(f, path, file) == [p \in DOMAIN f \cup {path} |-> IF p = path THEN file ELSE f[p]]
Without(f, path) == Restrict(f, DOMAIN f \ {path})

NoPut == [path |-> LatestPath, data |-> <<>>, handle |-> "none"]
Idle == [pc |-> "idle", now |-> 0, manifest |-> <<>>, at |-> 0, put |-> NoPut]
Waiting == [pc |-> "latest", time |-> 0, sealed_through |-> 0, manifest |-> <<>>, at |-> 0]

Init ==
  /\ blobs = <<>> /\ filled = 0 /\ branch = "a" /\ clock = 0
  /\ files = <<>> /\ temps = <<>>
  /\ exp = [e \in Exporters |-> Idle]
  /\ reader = Waiting
  /\ counts = [reorgs |-> 0, crashes |-> 0, damages |-> 0]

-----------------------------------------------------------------------------
(* The daemon: the writer of the index and the range metadata filler *)

Seals ==
  /\ Len(blobs) < MaxRanges
  /\ blobs' = Append(blobs, <<Len(blobs) + 1, branch>>)
  /\ UNCHANGED <<filled, branch, clock, files, temps, exp, reader, counts>>

Fills ==
  /\ filled < Len(blobs)
  /\ filled' = filled + 1
  /\ UNCHANGED <<blobs, branch, clock, files, temps, exp, reader, counts>>

\* Index::replace_deep_suffix: new ranges above the common one, without rows.
Reorganizes ==
  /\ counts.reorgs < MaxReorgs
  /\ branch' = IF branch = "a" THEN "b" ELSE "a"
  /\ \E common \in 0..(Len(blobs) - 1) : \E sealed \in common..Len(blobs) :
       /\ blobs' = [i \in 1..sealed |-> IF i <= common THEN blobs[i] ELSE <<i, branch'>>]
       /\ filled' = IF filled < common THEN filled ELSE common
  /\ counts' = [counts EXCEPT !.reorgs = @ + 1]
  /\ UNCHANGED <<clock, files, temps, exp, reader>>

Ticks ==
  /\ clock < MaxTime
  /\ clock' = clock + 1
  /\ UNCHANGED <<blobs, filled, branch, files, temps, exp, reader, counts>>

-----------------------------------------------------------------------------
(* SnapshotExport::run and SnapshotWriter::export *)

\* ExportArgs::run takes the time, then Rows::read reads the rows from genesis
\* in one transaction.  Without a sealed range or a row at genesis the export
\* ends here.
ReadRows(e) ==
  /\ exp[e].pc = "idle" /\ filled > 0
  /\ exp' = [exp EXCEPT ![e] = [Idle EXCEPT !.pc = "path", !.now = clock,
                                            !.manifest = SubSeq(blobs, 1, filled)]]
  /\ UNCHANGED <<blobs, filled, branch, clock, files, temps, reader, counts>>

\* SnapshotWriter::new_manifest_path: the export ends with ManifestExists if a
\* file has the path.
NewManifestPath(e) ==
  /\ exp[e].pc = "path"
  /\ exp' = [exp EXCEPT ![e] =
       IF ManifestPath(@.now) \in DOMAIN files THEN Idle
       ELSE [@ EXCEPT !.pc = "range", !.at = 1]]
  /\ UNCHANGED <<blobs, filled, branch, clock, files, temps, reader, counts>>

\* SnapshotWriter::has_range: a file with the length of the entry is there.
HasRange(entry) == RangePath(entry) \in DOMAIN files /\ files[RangePath(entry)].whole

StartPut(e, path, data) ==
  [exp[e] EXCEPT !.pc = "create", !.put = [path |-> path, data |-> data, handle |-> "none"]]

\* One entry of the fold of SnapshotWriter::export.  The blob is read in a
\* transaction of its own, after the row: MissingRange and BlobMismatch end the
\* export.
\* (ExportUnchecked: a mutant that writes the blob that is there.)
ExportUnchecked(e) ==
  LET entry == exp[e].manifest[exp[e].at] IN
  /\ exp[e].pc = "range" /\ exp[e].at <= Len(exp[e].manifest)
  /\ exp' = [exp EXCEPT ![e] =
       IF HasRange(entry) THEN [exp[e] EXCEPT !.at = exp[e].at + 1]
       ELSE IF entry[1] > Len(blobs) THEN Idle
       ELSE StartPut(e, RangePath(entry), <<blobs[entry[1]]>>)]
  /\ UNCHANGED <<blobs, filled, branch, clock, files, temps, reader, counts>>
ExportRange(e) ==
  LET entry == exp[e].manifest[exp[e].at] IN
  /\ exp[e].pc = "range" /\ exp[e].at <= Len(exp[e].manifest)
  /\ exp' = [exp EXCEPT ![e] =
       IF HasRange(entry) THEN [exp[e] EXCEPT !.at = exp[e].at + 1]
       ELSE IF entry[1] > Len(blobs) \/ blobs[entry[1]] # entry THEN Idle
       ELSE StartPut(e, RangePath(entry), <<blobs[entry[1]]>>)]
  /\ UNCHANGED <<blobs, filled, branch, clock, files, temps, reader, counts>>

\* SnapshotWriter::put_manifest_and_latest: the manifest, its signature, then
\* latest.json.  The number of the file to put follows the last range.
\* (LatestFirst: a mutant that puts latest.json before the signature.)
Published(m, now) ==
  << <<ManifestPath(now), m>>, <<SignaturePath(now), m>>, <<LatestPath, <<now, Len(m)>> >> >>
LatestFirst(e) ==
  LET m == exp[e].manifest   at == exp[e].at - Len(m)
      put == Published(m, exp[e].now)[IF at = 1 THEN 1 ELSE 5 - at] IN
  /\ exp[e].pc = "range" /\ at \in 1..3
  /\ exp' = [exp EXCEPT ![e] = StartPut(e, put[1], put[2])]
  /\ UNCHANGED <<blobs, filled, branch, clock, files, temps, reader, counts>>
PutManifestAndLatest(e) ==
  LET m == exp[e].manifest   at == exp[e].at - Len(m)
      put == Published(m, exp[e].now)[at] IN
  /\ exp[e].pc = "range" /\ at \in 1..3
  /\ exp' = [exp EXCEPT ![e] = StartPut(e, put[1], put[2])]
  /\ UNCHANGED <<blobs, filled, branch, clock, files, temps, reader, counts>>

Finish(e) ==
  /\ exp[e].pc = "range" /\ exp[e].at = Len(exp[e].manifest) + 4
  /\ exp' = [exp EXCEPT ![e] = Idle]
  /\ UNCHANGED <<blobs, filled, branch, clock, files, temps, reader, counts>>

-----------------------------------------------------------------------------
(* SnapshotWriter::put: create and truncate the temporary file, write and   *)
(* sync it, rename it.  A handle follows its file through a rename.         *)

Create(e) ==
  /\ exp[e].pc = "create"
  /\ temps' = With(temps, exp[e].put.path, Cut)
  /\ exp' = [exp EXCEPT ![e].pc = "write", ![e].put.handle = "temp"]
  /\ UNCHANGED <<blobs, filled, branch, clock, files, reader, counts>>

\* The bytes of a shorter file on top of a longer one are a cut file.
Written(old, data) ==
  IF old.whole /\ Len(old.data) > Len(data) THEN Cut ELSE Whole(data)

Write(e) ==
  LET put == exp[e].put IN
  /\ exp[e].pc = "write"
  /\ temps' = IF put.handle # "temp" THEN temps
              ELSE With(temps, put.path, Written(temps[put.path], put.data))
  /\ files' = IF put.handle # "file" THEN files
              ELSE With(files, put.path, Written(files[put.path], put.data))
  /\ exp' = [exp EXCEPT ![e].pc = "rename"]
  /\ UNCHANGED <<blobs, filled, branch, clock, reader, counts>>

Moved(handle) == IF handle = "temp" THEN "file" ELSE "gone"

\* The rename fails, and ends the export, if another export renamed the file.
Rename(e) ==
  LET put == exp[e].put IN
  /\ exp[e].pc = "rename"
  /\ IF put.path \notin DOMAIN temps
     THEN /\ exp' = [exp EXCEPT ![e] = Idle]
          /\ UNCHANGED disk_vars
     ELSE /\ files' = With(files, put.path, temps[put.path])
          /\ temps' = Without(temps, put.path)
          /\ exp' = [o \in Exporters |->
               IF o = e THEN [exp[e] EXCEPT !.pc = "range", !.at = @ + 1, !.put = NoPut]
               ELSE IF exp[o].put.path = put.path
                    THEN [exp[o] EXCEPT !.put.handle = Moved(@)]
                    ELSE exp[o]]
  /\ UNCHANGED <<blobs, filled, branch, clock, reader, counts>>

-----------------------------------------------------------------------------
(* Faults *)

\* The process ends, or a file operation fails: the files stay as they are.
Crash(e) ==
  /\ counts.crashes < MaxCrashes /\ exp[e].pc # "idle"
  /\ exp' = [exp EXCEPT ![e] = Idle]
  /\ counts' = [counts EXCEPT !.crashes = @ + 1]
  /\ UNCHANGED <<blobs, filled, branch, clock, files, temps, reader>>

\* A range file loses bytes while no export runs (a full disk, an incomplete
\* copy of the directory).
Damage ==
  /\ counts.damages < MaxDamages
  /\ \A e \in Exporters : exp[e].pc = "idle"
  /\ \E path \in DOMAIN files :
       /\ path[1] = "range" /\ files[path].whole
       /\ files' = [files EXCEPT ![path] = Cut]
  /\ counts' = [counts EXCEPT !.damages = @ + 1]
  /\ UNCHANGED <<blobs, filled, branch, clock, temps, exp, reader>>

-----------------------------------------------------------------------------
(* The reader: HttpSource::manifest, then one blob of each entry.  A file   *)
(* that is not there, or does not verify, is a failure.                     *)

Fetched(path) == path \in DOMAIN files /\ files[path].whole

ReadLatest ==
  /\ reader.pc = "latest" /\ LatestPath \in DOMAIN files
  /\ reader' = IF ~Fetched(LatestPath) THEN [reader EXCEPT !.pc = "failed"]
               ELSE [reader EXCEPT !.pc = "manifest",
                                   !.time = files[LatestPath].data[1],
                                   !.sealed_through = files[LatestPath].data[2]]
  /\ UNCHANGED <<blobs, filled, branch, clock, files, temps, exp, counts>>

ReadManifest ==
  /\ reader.pc = "manifest"
  /\ reader' = IF ~Fetched(ManifestPath(reader.time)) THEN [reader EXCEPT !.pc = "failed"]
               ELSE [reader EXCEPT !.pc = "signature",
                                   !.manifest = files[ManifestPath(reader.time)].data]
  /\ UNCHANGED <<blobs, filled, branch, clock, files, temps, exp, counts>>

\* HttpSource::signed verifies the bytes of the manifest, and
\* HttpSource::manifest then compares the heights.
ReadSignature ==
  LET path == SignaturePath(reader.time) IN
  /\ reader.pc = "signature"
  /\ reader' = IF /\ Fetched(path) /\ files[path].data = reader.manifest
                  /\ Len(reader.manifest) = reader.sealed_through
               THEN [reader EXCEPT !.pc = "ranges", !.at = 1]
               ELSE [reader EXCEPT !.pc = "failed"]
  /\ UNCHANGED <<blobs, filled, branch, clock, files, temps, exp, counts>>

\* HttpSource::fetch_blob, and ManifestEntry::check_blob of the fetcher.
ReadRange ==
  LET entry == reader.manifest[reader.at] IN
  /\ reader.pc = "ranges"
  /\ reader' = IF reader.at > Len(reader.manifest) THEN Waiting
               ELSE IF Fetched(RangePath(entry)) /\ files[RangePath(entry)].data = <<entry>>
               THEN [reader EXCEPT !.at = @ + 1]
               ELSE [reader EXCEPT !.pc = "failed"]
  /\ UNCHANGED <<blobs, filled, branch, clock, files, temps, exp, counts>>

-----------------------------------------------------------------------------

Reads == ReadLatest \/ ReadManifest \/ ReadSignature \/ ReadRange
Exports(e) ==
  \/ ReadRows(e) \/ NewManifestPath(e) \/ ExportRange(e) \/ PutManifestAndLatest(e)
  \/ Finish(e) \/ Create(e) \/ Write(e) \/ Rename(e) \/ Crash(e)

Next ==
  \/ Seals \/ Fills \/ Reorganizes \/ Ticks \/ Damage \/ Reads
  \/ \E e \in Exporters : Exports(e)

Spec == Init /\ [][Next]_vars

-----------------------------------------------------------------------------
(* Properties *)

Complete(time) ==
  /\ Fetched(ManifestPath(time)) /\ Fetched(SignaturePath(time))
  /\ LET m == files[ManifestPath(time)].data IN
     /\ files[SignaturePath(time)].data = m
     /\ files[LatestPath].data[2] = Len(m)
     /\ \A i \in 1..Len(m) : /\ Fetched(RangePath(m[i]))
                             /\ files[RangePath(m[i])].data = <<m[i]>>

\* "`latest.json` points only at files that are present" (SnapshotWriter::export):
\* whenever an export renames latest.json, the manifest that it names, its
\* signature and each range file of it are there, whole, and agree, whatever the
\* daemon did to the index since the rows were read, wherever earlier exports
\* ended, and also after a range file was damaged.
LatestIsPublishedLast ==
  [][\A e \in Exporters :
       (exp[e].pc = "rename" /\ exp[e].put.path = LatestPath /\ files' # files)
         => Complete(exp[e].now)']_vars

\* A reader that took latest.json at any time, and reads the other files while
\* later exports run, gets a manifest that verifies and each of its ranges.
ReaderIsServed == counts.damages = 0 => reader.pc # "failed"

\* "a reader sees the old file or the new file, never a part of one"
\* (SnapshotWriter).
NoPartOfAFile == counts.damages = 0 => \A path \in DOMAIN files : files[path].whole

\* "The writer never replaces a manifest" (SnapshotWriter).
ManifestsAreNeverReplaced ==
  [][\A time \in 0..MaxTime : ManifestPath(time) \in DOMAIN files =>
       files'[ManifestPath(time)] = files[ManifestPath(time)]]_vars

\* The order in which an export publishes, with a crash between any two file operations: no path
\* ever has a part of a file, a manifest is never replaced, and latest.json comes after the files
\* that it leads to.
PublicationRule == []NoPartOfAFile /\ ManifestsAreNeverReplaced /\ LatestIsPublishedLast
=============================================================================
