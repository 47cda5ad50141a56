------------------------------- MODULE Restore -------------------------------
(***************************************************************************)
(* `chbk restore` (snapshots.rs, restore_snapshot): it reads a manifest,   *)
(* chooses the parts that its filters leave, downloads and extracts their  *)
(* archives several at a time, and with --attach has ClickHouse attach     *)
(* them.  It takes no lock.  One process restores at a time, always into   *)
(* the same output directory.  A part is named by its hash.                *)
(***************************************************************************)
EXTENDS Bucket

CONSTANTS
  DownloadConcurrency,  \* parts at work at a time
  MaxRestores           \* bound: how often a restore is run

ASSUME DownloadConcurrencyAssumption == DownloadConcurrency \in Nat \ {0}
ASSUME MaxRestoresAssumption == MaxRestores \in Nat

VARIABLES
  rpc,          \* where the restore is
  target,       \* the snapshot it restores
  attaching,    \* --attach
  wanted,       \* parts that table_filter and exclude_tables leave
  outcome,      \* outcome[h]: the stream that answers the part's GET, then what
                \* became of its download, then of its ATTACH
  output,       \* output[a][h]: the part's directory under --to, in the table's
                \* directory or, with --attach (a), in its detached/: what has
                \* been extracted there
  attached,     \* attached[h]: how often the table holds the part
  ending,       \* ending[h]: where the archive that was uploaded for h ends
  restores      \* how many restores have begun

restoreVars ==
  <<rpc, target, attaching, wanted, outcome, output, attached, ending, restores>>

RestorePc == {"idle", "read", "download", "attach", "done", "failed"}

(* An archive ends after its central directory, or inside an entry: the    *)
(* writer has written an entry's header before it opens the file.          *)
Ending == {"whole", "cut"}
Outcome == {"none", "ok", "error"} \cup Ending

RestoreTypeOK ==
  /\ rpc \in RestorePc
  /\ target \in Names \cup {Absent}
  /\ attaching \in BOOLEAN
  /\ wanted \subseteq Hashes
  /\ outcome \in [Hashes -> Outcome]
  /\ output \in [BOOLEAN -> [Hashes -> {"none", "partial"} \cup Ending]]
  /\ attached \in [Hashes -> 0..MaxRestores]
  /\ ending \in [Hashes -> Ending]
  /\ restores \in 0..MaxRestores

NoOutcome == [h \in Hashes |-> "none"]

RestoreInit ==
  /\ rpc = "idle"
  /\ target = Absent
  /\ attaching = FALSE
  /\ wanted = {}
  /\ outcome = NoOutcome
  /\ output = [a \in BOOLEAN |-> [h \in Hashes |-> "none"]]
  /\ attached = [h \in Hashes |-> 0]
  /\ ending = [h \in Hashes |-> "whole"]
  /\ restores = 0

Streaming == {h \in Hashes : outcome[h] \in Ending}
Restoring == rpc \in {"read", "download", "attach"}
OutputEmpty == \A a \in BOOLEAN, h \in Hashes : output[a][h] = "none"

(* The command line is read.  A directory that is not empty takes --force, *)
(* which is there for any run: without it nothing happens.                 *)
RestoreStart(n) ==
  /\ ~Restoring
  /\ restores < MaxRestores
  /\ restores' = restores + 1
  /\ target' = n
  /\ attaching' \in BOOLEAN
  /\ rpc' = "read"
  /\ wanted' = {}
  /\ outcome' = NoOutcome
  /\ UNCHANGED <<bucketVars, output, attached, ending>>

(* read_manifest, then filter_restore_items, which may leave any parts,    *)
(* and the metadata files.  Without parts there is nothing else to do.     *)
RestoreRead ==
  /\ rpc = "read"
  /\ target \in Present
  /\ wanted' \in SUBSET snapshots[target].refs
  /\ rpc' = IF wanted' = {} THEN "done" ELSE "download"
  /\ UNCHANGED <<bucketVars, target, attaching, outcome, output, attached, ending, restores>>

(* The manifest is not there.                                              *)
RestoreManifestGone ==
  /\ rpc = "read"
  /\ target \notin Present
  /\ rpc' = "failed"
  /\ UNCHANGED <<bucketVars, target, attaching, wanted, outcome, output, attached, ending, restores>>

(* Mutant of RestoreGet: a blob that is not there is asked for again.      *)
RestoreGetAgain(h) ==
  /\ rpc = "download"
  /\ h \in wanted \cap Stored
  /\ outcome[h] = "none"
  /\ Cardinality(Streaming) < DownloadConcurrency
  /\ outcome' = [outcome EXCEPT ![h] = ending[h]]
  /\ output' = [output EXCEPT ![attaching][h] = "partial"]
  /\ UNCHANGED <<bucketVars, rpc, target, attaching, wanted, attached, ending, restores>>

(* One part's directory is created and its blob asked for: it streams, or  *)
(* is not there.                                                           *)
RestoreGet(h) ==
  /\ rpc = "download"
  /\ h \in wanted
  /\ outcome[h] = "none"
  /\ Cardinality(Streaming) < DownloadConcurrency
  /\ outcome' = [outcome EXCEPT ![h] = IF h \in Stored THEN ending[h] ELSE "error"]
  /\ output' = [output EXCEPT ![attaching][h] =
                   IF h \in Stored \/ @ = "none" THEN "partial" ELSE @]
  /\ UNCHANGED <<bucketVars, rpc, target, attaching, wanted, attached, ending, restores>>

(* Mutant of Extractable: the end of the stream is the end of the archive, *)
(* wherever it comes.                                                      *)
ExtractableAnyway(h) == outcome[h] \in Ending

(* extract_zip finds every entry whole.                                    *)
Extractable(h) == outcome[h] = "whole"

RestoreExtract(h) ==
  /\ rpc = "download"
  /\ Extractable(h)
  /\ output' = [output EXCEPT ![attaching][h] = outcome[h]]
  /\ outcome' = [outcome EXCEPT ![h] = "ok"]
  /\ UNCHANGED <<bucketVars, rpc, target, attaching, wanted, attached, ending, restores>>

(* extract_zip fails: what it has extracted stays.                         *)
RestoreExtractFails(h) ==
  /\ rpc = "download"
  /\ h \in Streaming
  /\ outcome' = [outcome EXCEPT ![h] = "error"]
  /\ UNCHANGED <<bucketVars, rpc, target, attaching, wanted, output, attached, ending, restores>>

(* Mutant of RestoreCollected: the parts that failed are only left out.    *)
RestoreCollectedAnyway ==
  /\ rpc = "download"
  /\ \A h \in wanted : outcome[h] \in {"ok", "error"}
  /\ rpc' = IF attaching THEN "attach" ELSE "done"
  /\ outcome' = [h \in Hashes |-> IF outcome[h] = "error" THEN "error" ELSE "none"]
  /\ UNCHANGED <<bucketVars, target, attaching, wanted, output, attached, ending, restores>>

(* All downloads have ended, whatever became of them; the first error ends *)
(* the restore.                                                            *)
RestoreCollected ==
  /\ rpc = "download"
  /\ \A h \in wanted : outcome[h] \in {"ok", "error"}
  /\ rpc' = IF \E h \in wanted : outcome[h] = "error" THEN "failed"
            ELSE IF attaching THEN "attach" ELSE "done"
  /\ outcome' = NoOutcome
  /\ UNCHANGED <<bucketVars, target, attaching, wanted, output, attached, ending, restores>>

(* Mutant of RestoreAttach: that the part was attached is not noted.       *)
RestoreAttachAgain(h, result) ==
  /\ rpc = "attach"
  /\ h \in wanted
  /\ outcome[h] = "none"
  /\ result \in {"ok", "error"}
  /\ attached' = [attached EXCEPT ![h] = @ + 1]
  /\ UNCHANGED <<bucketVars, rpc, target, attaching, wanted, outcome, output, ending, restores>>

(* ALTER TABLE ... ATTACH PART: the part moves from detached/ to the table. *)
RestoreAttach(h, result) ==
  /\ rpc = "attach"
  /\ h \in wanted
  /\ outcome[h] = "none"
  /\ result \in {"ok", "error"}
  /\ outcome' = [outcome EXCEPT ![h] = result]
  /\ attached' = [attached EXCEPT ![h] = @ + 1]
  /\ output' = [output EXCEPT ![attaching][h] = "none"]
  /\ UNCHANGED <<bucketVars, rpc, target, attaching, wanted, ending, restores>>

(* ClickHouse refuses, or the query does not reach it.                     *)
RestoreAttachFails(h) ==
  /\ rpc = "attach"
  /\ h \in wanted
  /\ outcome[h] = "none"
  /\ outcome' = [outcome EXCEPT ![h] = "error"]
  /\ UNCHANGED <<bucketVars, rpc, target, attaching, wanted, output, attached, ending, restores>>

(* Every part has been tried: the first error is the restore's result.     *)
RestoreAttached ==
  /\ rpc = "attach"
  /\ \A h \in wanted : outcome[h] \in {"ok", "error"}
  /\ rpc' = IF \E h \in wanted : outcome[h] = "error" THEN "failed" ELSE "done"
  /\ UNCHANGED <<bucketVars, target, attaching, wanted, outcome, output, attached, ending, restores>>

(* The process dies, a file cannot be written, or the manifest is not that *)
(* of --shard and --replica, or holds nothing of --table.                  *)
RestoreCrash ==
  /\ Restoring
  /\ rpc' = "failed"
  /\ UNCHANGED <<bucketVars, target, attaching, wanted, outcome, output, attached, ending, restores>>
=============================================================================
