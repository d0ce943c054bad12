-------------------------- MODULE CasePreparation --------------------------
(***************************************************************************)
(* The first half of the benchmark runner, benchmarking/run_benchmarks.py: *)
(* main() up to the session schedule, prepare_universal_ca_bundle() and    *)
(* prepare_case_for_schedule(), over the cache of certificates in          *)
(* benchmarking/work that one run leaves to the next, together with the    *)
(* cases of generate_cases.py and the credentials of                       *)
(* host/gen_benchmark_certs.py.                                            *)
(*                                                                         *)
(* Every generation of credentials has a number of its own; a file, a CA   *)
(* and a certificate are known by the generation they come from.  A run    *)
(* may be killed, and a command or a copy may fail, half way.              *)
(***************************************************************************)
EXTENDS Naturals, Sequences

CONSTANTS
    Kems,          \* KEMS of generate_cases.py
    AnyKem,        \* "universal-kem", and the KEM part of a key without one
    Sigs,          \* SIGS of generate_cases.py
    Supported,     \* those the OpenSSL at hand can generate
    Marked,        \* cases with known_unsupported in the CSV
    Options,       \* command lines the runs choose from
    MaxRows,       \* bound: cases of a run
    MaxRuns,       \* bound: runs
    MaxFaults      \* bound: commands and copies that fail, runs that are killed

ASSUME PreparationAssumption ==
    /\ AnyKem \notin Kems /\ Supported \subseteq Sigs /\ Marked \subseteq [kex : Kems, sig : Sigs]
    /\ Options \subseteq [kem : BOOLEAN, bundle : BOOLEAN, skip_flash : BOOLEAN,
                          dry_run : BOOLEAN]
    /\ MaxRows \in Nat /\ MaxRuns \in Nat /\ MaxFaults \in Nat

Cases == [kex : Kems, sig : Sigs]
Keys  == [kex : Kems \cup {AnyKem}, sig : Sigs]

CertFiles == {"ca.crt", "server.crt", "server.key"}
Header == "benchmark_cert.h"
Files == CertFiles \cup {Header}
Nothing == [f \in Files |-> 0]
Fresh(g) == [f \in Files |-> g]
Whole(entry) == entry[Header] # 0 /\ entry = Fresh(entry[Header])

Profiles == [kex : Kems \cup {AnyKem}, bundle : BOOLEAN, sigs : SUBSET Sigs]
Images   == [profile : Profiles, kems : SUBSET Kems, cas : SUBSET Nat, torn : BOOLEAN]
Erased   == [profile |-> [kex |-> AnyKem, bundle |-> FALSE, sigs |-> {}],
             kems |-> {}, cas |-> {}, torn |-> FALSE]

VARIABLES
    pc,
    args,          \* the run's options: universal KEM, CA bundle, --skip-flash, --dry-run
    rows,          \* its cases, shuffled
    next,          \* the row being worked on
    bundle,        \* CAs in the header of args._ca_bundle_header
    builds,        \* images of args._firmware_builds
    dir,           \* the current case's certificate, key and CA header
    prepared,      \* prepared cases, with their credentials and the image for them
    summary,       \* rows of summary.csv so far
    cache,         \* case-artifacts/<key>: the generation of each file, 0 if absent
    flashed,       \* the image on the board
    generations, runs, faults,
    torn           \* history: has the run met or left a half-written cache entry

run  == <<pc, args, rows, next, bundle, builds, dir, prepared, summary, torn>>
disk == <<cache, flashed, generations>>
vars == <<run, disk, runs, faults>>

Stopped == {"idle", "sessions", "aborted", "killed"}

TypeOK ==
    /\ pc \in Stopped \cup {"setup", "bundle", "prepare", "build"}
    /\ args \in [kem : BOOLEAN, bundle : BOOLEAN, skip_flash : BOOLEAN, dry_run : BOOLEAN]
    /\ rows \in Seq(Cases) /\ next \in Nat \ {0} /\ (pc = "build" => next \in DOMAIN rows)
    /\ bundle \subseteq Nat /\ builds \subseteq Images
    /\ dir \in [crt : Nat, key : Nat, cas : SUBSET Nat]
    /\ prepared \subseteq [case : Cases, crt : Nat, key : Nat, image : Images]
    /\ summary \in Seq([case : Cases, status : {"unsupported", "error"}])
    /\ cache \in [Keys -> [Files -> Nat]] /\ flashed \in Images
    /\ generations \in Nat /\ runs \in Nat /\ faults \in Nat
    /\ torn \in BOOLEAN

Init ==
    /\ pc = "idle"
    /\ args = [kem |-> TRUE, bundle |-> TRUE, skip_flash |-> FALSE, dry_run |-> FALSE]
    /\ rows = <<>> /\ next = 1 /\ bundle = {} /\ builds = {}
    /\ dir = [crt |-> 0, key |-> 0, cas |-> {}]
    /\ prepared = {} /\ summary = <<>> /\ torn = FALSE
    /\ cache = [k \in Keys |-> Nothing] /\ flashed = Erased
    /\ generations = 0 /\ runs = 0 /\ faults = 0

Fault == faults < MaxFaults /\ faults' = faults + 1

-----------------------------------------------------------------------------
(* Keys                                                                    *)

cert_artifact_cache_key(c) ==
    [kex |-> IF args.kem THEN AnyKem ELSE c.kex, sig |-> c.sig]

RunSigs == {rows[n].sig : n \in DOMAIN rows}

BUG_firmware_profile_key(c) ==          \* forgets the certificate algorithm
    [kex |-> IF args.kem THEN AnyKem ELSE c.kex, bundle |-> args.bundle, sigs |-> RunSigs]

BUG_profile_of_signature(c) ==          \* the algorithms of the key swapped
    [kex |-> IF args.kem THEN AnyKem ELSE c.sig, bundle |-> args.bundle, sigs |-> {c.sig}]

firmware_profile_key(c) ==
    [kex    |-> IF args.kem THEN AnyKem ELSE c.kex,
     bundle |-> args.bundle,
     sigs   |-> IF args.bundle THEN RunSigs ELSE {c.sig}]

Case == rows[next]
Key  == cert_artifact_cache_key(Case)

-----------------------------------------------------------------------------
(* Credentials and their cache                                             *)

(* gen_benchmark_certs.py: a CA, a server certificate it signs, the header.*)
Generates == Case.sig \in Supported /\ generations' = generations + 1

GenerationFails ==
    /\ \/ Case.sig \notin Supported /\ UNCHANGED faults
       \/ Case.sig \in Supported /\ Fault
    /\ UNCHANGED <<cache, generations>>

BUG_cached_cert_artifacts_exist(entry) == FALSE     \* generates for every run

cached_cert_artifacts_exist(entry) == \A f \in CertFiles : entry[f] # 0

restore_cached_case_artifacts(entry) ==
    entry["server.crt"] # 0 /\ entry["server.key"] # 0 /\ entry[Header] # 0

BUG_cache_case_artifacts ==             \* forgets the generated header
    cache' = [cache EXCEPT ![Key] = [Fresh(generations') EXCEPT ![Header] = 0]]

cache_case_artifacts == cache' = [cache EXCEPT ![Key] = Fresh(generations')]

(* Stopped in rmtree() of the old entry or in the copy of certs: what is   *)
(* left is a part of one of the two.                                       *)
CacheInterrupted ==
    /\ \/ \E left \in SUBSET Files :
            cache' = [cache EXCEPT ![Key] = [f \in Files |-> IF f \in left THEN @[f] ELSE 0]]
       \/ \E left \in SUBSET CertFiles :
            cache' = [cache EXCEPT ![Key] =
                         [f \in Files |-> IF f \in left THEN generations' ELSE 0]]
    /\ torn' = TRUE

-----------------------------------------------------------------------------
(* main() up to the preparation                                            *)

read_cases ==
    {s \in UNION {[1 .. n -> Cases] : n \in 1 .. MaxRows} :
        \A i, j \in DOMAIN s : s[i] = s[j] => i = j}

HalfWritten ==
    \E n \in DOMAIN rows : LET entry == cache[cert_artifact_cache_key(rows[n])]
                           IN  entry # Nothing /\ ~Whole(entry)

StartRun ==
    /\ pc \in Stopped /\ runs < MaxRuns /\ runs' = runs + 1
    /\ args' \in Options /\ rows' \in read_cases
    /\ next' = 1 /\ bundle' = {} /\ builds' = {} /\ prepared' = {} /\ summary' = <<>>
    /\ dir' = [crt |-> 0, key |-> 0, cas |-> {}]
    /\ UNCHANGED <<disk, faults>>
    /\ torn' = HalfWritten'
    /\ pc' = IF args'.dry_run THEN "prepare" ELSE "setup"

(* setup-openssl-conf and oqs-check                                        *)
Setup ==
    /\ pc = "setup"
    /\ \/ pc' = (IF args.bundle THEN "bundle" ELSE "prepare") /\ UNCHANGED faults
       \/ pc' = "aborted" /\ Fault
    /\ UNCHANGED <<args, rows, next, bundle, builds, dir, prepared, summary, torn, disk, runs>>

Killed ==
    /\ pc \notin Stopped /\ Fault /\ pc' = "killed"
    /\ UNCHANGED <<args, rows, next, bundle, builds, dir, prepared, summary, torn, disk, runs>>

-----------------------------------------------------------------------------
(* prepare_universal_ca_bundle(): sig_to_case keeps the first case of each *)
(* algorithm; an exception here ends main()                                *)

sig_to_case == {n \in DOMAIN rows : \A m \in 1 .. n - 1 : rows[m].sig # rows[n].sig}

Missing == next \in sig_to_case /\ ~cached_cert_artifacts_exist(cache[Key])

SkipCached ==
    /\ pc = "bundle" /\ next \in DOMAIN rows /\ ~Missing
    /\ next' = next + 1
    /\ UNCHANGED <<pc, args, rows, bundle, builds, dir, prepared, summary, torn, disk, runs, faults>>

ensure_cached_cert_artifacts ==
    /\ pc = "bundle" /\ next \in DOMAIN rows /\ Missing
    /\ \/ Generates /\ cache_case_artifacts /\ next' = next + 1 /\ UNCHANGED <<pc, torn, faults>>
       \/ Generates /\ CacheInterrupted /\ Fault /\ pc' = "aborted" /\ UNCHANGED next
       \/ GenerationFails /\ pc' = "aborted" /\ UNCHANGED <<next, torn>>
    /\ UNCHANGED <<args, rows, bundle, builds, dir, prepared, summary, flashed, runs>>

write_ca_bundle_header ==
    /\ pc = "bundle" /\ next \notin DOMAIN rows
    /\ bundle' = {cache[cert_artifact_cache_key(rows[n])]["ca.crt"] : n \in sig_to_case}
    /\ pc' = "prepare" /\ next' = 1
    /\ UNCHANGED <<args, rows, builds, dir, prepared, summary, torn, disk, runs, faults>>

-----------------------------------------------------------------------------
(* prepare_case_for_schedule(), row by row: a row that is not prepared has *)
(* its summary at once, and an exception is an "error" row                 *)

Preparing == pc = "prepare" /\ next \in DOMAIN rows

BUG_Record(status) ==                   \* an exception is printed and not recorded
    /\ summary' = IF status = "error" THEN summary
                  ELSE Append(summary, [case |-> Case, status |-> status])
    /\ next' = next + 1 /\ pc' = "prepare"

Record(status) ==
    /\ summary' = Append(summary, [case |-> Case, status |-> status])
    /\ next' = next + 1 /\ pc' = "prepare"

Attempted == Case \notin Marked /\ ~args.dry_run

Unsupported ==
    /\ Preparing /\ ~Attempted /\ Record("unsupported")
    /\ UNCHANGED <<args, rows, bundle, builds, dir, prepared, torn, disk, runs, faults>>

install_case_trust_header(header) == IF args.bundle THEN bundle ELSE {header}

RestoreArtifacts ==
    /\ Preparing /\ Attempted /\ restore_cached_case_artifacts(cache[Key])
    /\ dir' = [crt |-> cache[Key]["server.crt"], key |-> cache[Key]["server.key"],
               cas |-> install_case_trust_header(cache[Key][Header])]
    /\ pc' = "build"
    /\ UNCHANGED <<args, rows, next, bundle, builds, prepared, summary, torn, disk, runs, faults>>

NoArtifacts ==                          \* --skip-flash asks for cached ones
    /\ Preparing /\ Attempted /\ args.skip_flash
    /\ ~restore_cached_case_artifacts(cache[Key]) /\ Record("error")
    /\ UNCHANGED <<args, rows, bundle, builds, dir, prepared, torn, disk, runs, faults>>

generate_certs ==
    /\ Preparing /\ Attempted /\ ~args.skip_flash /\ ~restore_cached_case_artifacts(cache[Key])
    /\ \/ /\ Generates /\ cache_case_artifacts
          /\ dir' = [crt |-> generations', key |-> generations',
                     cas |-> install_case_trust_header(generations')]
          /\ pc' = "build" /\ UNCHANGED <<next, summary, torn, faults>>
       \/ /\ Generates /\ CacheInterrupted /\ Fault /\ UNCHANGED dir
          /\ \/ Record("error")
             \/ pc' = "killed" /\ UNCHANGED <<next, summary>>
       \/ GenerationFails /\ Record("unsupported") /\ UNCHANGED <<dir, torn>>
    /\ UNCHANGED <<args, rows, bundle, builds, prepared, flashed, runs>>

(* The image the case's sessions will run: the one built for its profile,  *)
(* a new one of the case's directory, or what is on the board.             *)
NewImage ==
    [profile |-> firmware_profile_key(Case), kems |-> IF args.kem THEN Kems ELSE {Case.kex},
     cas |-> dir.cas, torn |-> torn]

build_firmware ==
    LET built == {i \in builds : i.profile = firmware_profile_key(Case)}
    IN  IF args.skip_flash THEN {flashed} ELSE IF built # {} THEN built ELSE {NewImage}

Prepare ==
    /\ pc = "build"
    /\ \E image \in build_firmware :
          /\ prepared' = prepared \cup
                {[case |-> Case, crt |-> dir.crt, key |-> dir.key, image |-> image]}
          /\ builds' = IF args.skip_flash THEN builds ELSE builds \cup {image}
    /\ next' = next + 1 /\ pc' = "prepare"
    /\ UNCHANGED <<args, rows, bundle, dir, summary, torn, disk, runs, faults>>

BuildFails ==                           \* build_broker() or build_firmware()
    /\ pc = "build" /\ Fault /\ Record("error")
    /\ UNCHANGED <<args, rows, bundle, builds, dir, prepared, torn, disk, runs>>

EndPreparation ==
    /\ pc = "prepare" /\ next \notin DOMAIN rows /\ pc' = "sessions"
    /\ UNCHANGED <<args, rows, next, bundle, builds, dir, prepared, summary, torn, disk, runs, faults>>

(* The sessions, BenchRunner, flash the images of the prepared cases.      *)
FlashSession ==
    /\ pc = "sessions" /\ ~args.skip_flash
    /\ \E p \in prepared : flashed' = p.image
    /\ UNCHANGED <<run, cache, generations, runs, faults>>

Next ==
    \/ StartRun \/ Setup \/ Killed
    \/ SkipCached \/ ensure_cached_cert_artifacts \/ write_ca_bundle_header
    \/ Unsupported \/ RestoreArtifacts \/ NoArtifacts \/ generate_certs
    \/ Prepare \/ BuildFails \/ EndPreparation \/ FlashSession

Spec == Init /\ [][Next]_vars

-----------------------------------------------------------------------------
(* Properties                                                              *)

(* A prepared case's certificate is one the firmware it will run with      *)
(* trusts, it goes with the key, and the firmware offers the case's KEM,   *)
(* whatever runs, options and profiles came before: with --skip-flash for  *)
(* a board whose firmware has the profile of the case, and unless a cache  *)
(* entry was left half-written.  Firmware for one KEM with a bundle for    *)
(* all is excepted: its bundle has the CA of sig_to_case, one case of each *)
(* algorithm, and certificates of the other KEMs have CAs of their own.    *)
FirmwareFits ==
    \A p \in prepared :
        /\ ~torn /\ ~p.image.torn /\ (args.kem \/ ~args.bundle)
        /\ p.image.profile = firmware_profile_key(p.case)
        => p.case.kex \in p.image.kems /\ p.crt \in p.image.cas /\ p.crt = p.key

(* What a prepared case serves is what the cache holds for it, so that a   *)
(* later run finds the credentials the board's firmware was built with.    *)
CacheCurrent ==
    ~torn => \A p \in prepared : cache[cert_artifact_cache_key(p.case)] = Fresh(p.crt)

(* Credentials once whole in the cache are never generated again or        *)
(* removed: firmware built for them in an earlier run may be on a board.   *)
CachedCertsKept == [][\A k \in Keys : Whole(cache[k]) => cache'[k] = cache[k]]_vars

(* Each row met so far is a prepared case or has one row of summary.csv,   *)
(* and not both: no case is lost by an error path or counted twice.        *)
RowsAccounted ==
    pc \in {"prepare", "build", "sessions"} =>
        \A n \in DOMAIN rows :
            LET summaries == {m \in DOMAIN summary : summary[m].case = rows[n]}
                isPrepared == \E p \in prepared : p.case = rows[n]
            IN  IF n < next /\ ~isPrepared THEN \E m \in DOMAIN summary : summaries = {m}
                ELSE summaries = {} /\ (isPrepared => n < next)

=============================================================================
