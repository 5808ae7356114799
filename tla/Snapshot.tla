------------------------------ MODULE Snapshot ------------------------------
(***************************************************************************)
(* Snapshots of the database.  An archive node dumps and signs its tables  *)
(* and uploads the files (server/src/snapshot.rs); an operator applies a   *)
(* snapshot with apply_db_dump (node/src/sync.rs).  A file is the number   *)
(* of the dump it belongs to.  The upload replaces the files one after     *)
(* another, and so does the download, so the two can meet half way.        *)
(***************************************************************************)
EXTENDS Integers, Sequences, FiniteSets, Functions

CONSTANTS
    Sources,         \* archive_snapshot_sources, in their order
    AllTables,       \* what get_all_table_names lists, in its order
    OtherTables,     \* tables of the schema that it does not list
    MaxDumps,        \* bound: dumps the archive makes
    MaxOutages       \* bound: failed requests, failed restores and stops

ASSUME SnapshotAssumption ==
    /\ AllTables \in Seq(Range(AllTables)) /\ AllTables # << >>
    /\ Sources \in Seq(Range(Sources)) /\ Sources # << >>
    /\ MaxDumps \in Nat

VARIABLES
    bucket,   \* per source: its files
    archive,  \* what the archive node is doing
    files,    \* the files in the working directory of the reader
    tables,   \* per table: "own" rows, none, or the rows of a dump
    apply,    \* what apply_db_dump is doing
    outages

snapshotVars == <<bucket, archive, files, tables, apply, outages>>

File == {"dump", "signature", "chain_state"}
Missing == 0
Partial == -1
Own == -2
Empty == -3

Tables == Range(AllTables) \cup OtherTables
NoFiles == [f \in File |-> Missing]

SnapshotInit ==
    /\ bucket = [s \in Range(Sources) |-> NoFiles]
    /\ archive = [pc |-> "idle", made |-> 0, files |-> NoFiles, rest |-> << >>]
    /\ files = NoFiles
    /\ tables \in {[t \in Tables |-> Own],
                   [t \in Tables |-> IF t \in OtherTables THEN Empty ELSE Own]}
    /\ apply = [pc |-> "idle", sources |-> << >>, rest |-> << >>, result |-> "none",
                before |-> tables]
    /\ outages = 0

Outage == outages < MaxOutages /\ outages' = outages + 1

-----------------------------------------------------------------------------
\* upload_db_dump_to_s3: pg_dump, sign, chain state, upload.

pg_dump ==
    /\ archive.pc = "idle" /\ archive.made < MaxDumps
    /\ archive' = [archive EXCEPT !.pc = "sign", !.made = @ + 1, !.files.dump = archive.made + 1]
    /\ UNCHANGED <<bucket, files, tables, apply, outages>>

create_and_sign_db_dump_hash ==
    /\ archive.pc = "sign"
    /\ archive' = [archive EXCEPT !.pc = "chain_state", !.files.signature = archive.files.dump]
    /\ UNCHANGED <<bucket, files, tables, apply, outages>>

create_chain_state_file ==
    /\ archive.pc = "chain_state"
    /\ archive' = [archive EXCEPT !.pc = "upload", !.files.chain_state = archive.files.dump,
                       !.rest = <<"dump", "signature", "chain_state">>]
    /\ UNCHANGED <<bucket, files, tables, apply, outages>>

\* A file appears when its multipart upload is completed.
upload_files_to_s3 ==
    /\ archive.pc = "upload"
    /\ LET f == Head(archive.rest)
       IN  /\ bucket' = [bucket EXCEPT ![Head(Sources)][f] = archive.files[f]]
           /\ archive' = [archive EXCEPT !.rest = Tail(@),
                              !.pc = IF Len(archive.rest) = 1 THEN "idle" ELSE "upload"]
    /\ UNCHANGED <<files, tables, apply, outages>>

\* Every attempt begins with the first file; after three the upload is given up.
setup_and_upload_files_to_s3 ==
    /\ archive.pc = "upload"
    /\ Outage
    /\ \/ archive' = [archive EXCEPT !.rest = <<"dump", "signature", "chain_state">>]
       \/ archive' = [archive EXCEPT !.pc = "idle", !.rest = << >>]
    /\ UNCHANGED <<bucket, files, tables, apply>>

\* Another source serves what the first one served at some time.
Mirror ==
    /\ \E s \in Range(Sources) \ {Head(Sources)}, f \in File :
          /\ bucket[s][f] # bucket[Head(Sources)][f]
          /\ bucket' = [bucket EXCEPT ![s][f] = bucket[Head(Sources)][f]]
    /\ UNCHANGED <<archive, files, tables, apply, outages>>

-----------------------------------------------------------------------------
\* apply_db_dump

snapshot_files == <<"signature", "dump">>

ApplyDump ==
    /\ apply.pc \in {"idle", "stopped"}
    /\ apply' = [pc |-> "download", sources |-> Sources, rest |-> snapshot_files, result |-> "none",
                 before |-> tables]
    /\ UNCHANGED <<bucket, archive, files, tables, outages>>

Finish(result) == apply' = [apply EXCEPT !.pc = "idle", !.result = result]

\* After the last file of a source; after a failure the next source is tried.
NextFile ==
    apply' = IF Len(apply.rest) = 1 THEN [apply EXCEPT !.pc = "verify", !.rest = << >>]
             ELSE [apply EXCEPT !.rest = Tail(@)]

NextSource ==
    IF Len(apply.sources) = 1 THEN Finish("download")
    ELSE apply' = [apply EXCEPT !.sources = Tail(@), !.rest = snapshot_files]

\* A status that is not a success only logs, and the old file stays.
download_file ==
    LET s == Head(apply.sources)
        f == Head(apply.rest)
    IN  /\ apply.pc = "download"
        /\ files' = IF bucket[s][f] = Missing THEN files ELSE [files EXCEPT ![f] = bucket[s][f]]
        /\ NextFile
        /\ UNCHANGED <<bucket, archive, tables, outages>>

\* The source does not answer, or the stream breaks off.
download_fails ==
    /\ apply.pc = "download"
    /\ Outage
    /\ files' \in {files, [files EXCEPT ![Head(apply.rest)] = Partial]}
    /\ NextSource
    /\ UNCHANGED <<bucket, archive, tables>>

\* Mutant of verify_signature: any dump file that is there is taken.
verify_signature_present == files.dump # Missing

\* The signature file is that of the dump file.
verify_signature == files.dump > 0 /\ files.signature = files.dump

CheckSignature ==
    /\ apply.pc = "verify"
    /\ IF verify_signature THEN apply' = [apply EXCEPT !.pc = "clear", !.rest = AllTables]
                           ELSE Finish("signature")
    /\ UNCHANGED <<bucket, archive, files, tables, outages>>

\* clear_db_records and delete_table: one statement per table.
delete_table ==
    /\ apply.pc = "clear"
    /\ tables' = [tables EXCEPT ![Head(apply.rest)] = Empty]
    /\ apply' = [apply EXCEPT !.rest = Tail(@), !.pc = IF Len(apply.rest) = 1 THEN "restore" ELSE @]
    /\ UNCHANGED <<bucket, archive, files, outages>>

\* pg_restore loads a table in one statement, which rows that are there refuse.
Loaded(set) == [t \in Tables |-> IF t \in set /\ tables[t] = Empty THEN files.dump ELSE tables[t]]

restore_db ==
    /\ apply.pc = "restore"
    /\ tables' = Loaded(Tables)
    /\ Finish("ok")
    /\ UNCHANGED <<bucket, archive, files, outages>>

\* pg_restore fails, at the start or half way: this is only a warning.
restore_db_warns ==
    /\ apply.pc = "restore"
    /\ Outage
    /\ \E n \in 0 .. Len(AllTables) - 1 : tables' = Loaded(Range(SubSeq(AllTables, 1, n)))
    /\ Finish("ok")
    /\ UNCHANGED <<bucket, archive, files>>

\* The command is stopped.
Stop ==
    /\ apply.pc # "idle" /\ apply.pc # "stopped"
    /\ Outage
    /\ apply' = [apply EXCEPT !.pc = "stopped"]
    /\ UNCHANGED <<bucket, archive, files, tables>>

SnapshotNext ==
    \/ pg_dump \/ create_and_sign_db_dump_hash \/ create_chain_state_file
    \/ upload_files_to_s3 \/ setup_and_upload_files_to_s3 \/ Mirror
    \/ ApplyDump \/ download_file \/ download_fails \/ CheckSignature
    \/ delete_table \/ restore_db \/ restore_db_warns \/ Stop

SnapshotSpec == SnapshotInit /\ [][SnapshotNext]_snapshotVars

-----------------------------------------------------------------------------
\* Properties.

\* When apply_db_dump is refused the tables are what they were: neither a failed
\* download nor a signature of another dump clears anything.
RefusedChangesNothing == apply.result \in {"download", "signature"} => tables = apply.before

\* When it reports success every listed table is empty or has the rows of one
\* dump that was downloaded entirely, also when signature and dump came from two
\* uploads, from two sources, or were left over from an earlier attempt.  (They
\* can be empty: a failed pg_restore is a warning.)
RestoredFromOneDump ==
    apply.result = "ok" =>
        \E d \in 1 .. MaxDumps : \A t \in Range(AllTables) : tables[t] \in {Empty, d}

\* Rows that a snapshot brought are never mixed with own rows in the listed
\* tables, not even when the command was stopped half way.
NoMixture ==
    \A t, u \in Range(AllTables) : tables[t] > 0 => tables[u] # Own

\* Whatever files of two uploads or two sources meet, and wherever it is stopped,
\* apply_db_dump leaves the tables as they were or restores one whole dump.
SnapshotSafe == RefusedChangesNothing /\ RestoredFromOneDump /\ NoMixture
=============================================================================
