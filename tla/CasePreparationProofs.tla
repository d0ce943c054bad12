----------------------- MODULE CasePreparationProofs -----------------------
(***************************************************************************)
(* Proofs about CasePreparation, for every set of algorithms, choice of    *)
(* options and number of runs, rows and faults.                            *)
(***************************************************************************)
EXTENDS CasePreparation, TLAPS

LEMMA TypeInit == Init => TypeOK
<1>1. Init => TypeOK
  <2> SUFFICES ASSUME Init PROVE TypeOK
    OBVIOUS
  <2>1. flashed \in Images
    BY DEF Init, Erased, Images, Profiles
  <2>2. cache \in [Keys -> [Files -> Nat]]
    BY DEF Init, Nothing
  <2>3. rows \in Seq(Cases) /\ summary \in Seq([case : Cases, status : {"unsupported", "error"}])
    BY DEF Init
  <2>4. args \in [kem : BOOLEAN, bundle : BOOLEAN, skip_flash : BOOLEAN, dry_run : BOOLEAN]
    BY DEF Init
  <2>5. dir \in [crt : Nat, key : Nat, cas : SUBSET Nat]
    BY DEF Init
  <2>6. pc \in Stopped \cup {"setup", "bundle", "prepare", "build"} /\ pc # "build"
    BY DEF Init, Stopped
  <2>9. next \in Nat \ {0}
    BY DEF Init
  <2>10. torn \in BOOLEAN
    BY Zenon DEF Init
  <2>7. bundle \subseteq Nat /\ builds \subseteq Images
        /\ prepared \subseteq [case : Cases, crt : Nat, key : Nat, image : Images]
    BY DEF Init
  <2>8. generations \in Nat /\ runs \in Nat /\ faults \in Nat
    BY DEF Init
  <2> QED BY <2>1, <2>2, <2>3, <2>4, <2>5, <2>6, <2>7, <2>8, <2>9, <2>10 DEF TypeOK
<1> QED BY <1>1

LEMMA TypeStep == TypeOK /\ [Next]_vars => TypeOK'
<1>2. TypeOK /\ [Next]_vars => TypeOK'
  <2> SUFFICES ASSUME TypeOK, [Next]_vars PROVE TypeOK'
    OBVIOUS
  <2> USE DEF Stopped
  <2> /\ generations \in Nat /\ faults \in Nat /\ runs \in Nat /\ next \in Nat \ {0}
      /\ cache \in [Keys -> [Files -> Nat]]
    BY DEF TypeOK
  <2>key. ASSUME NEW n \in DOMAIN rows
          PROVE  rows[n] \in Cases /\ cert_artifact_cache_key(rows[n]) \in Keys
    <3>1. rows[n] \in Cases
      BY <2>key DEF TypeOK
    <3> QED BY <3>1 DEF cert_artifact_cache_key, Keys, Cases
  <2>fresh. ASSUME next \in DOMAIN rows, cache_case_artifacts, generations' = generations + 1
            PROVE  cache' \in [Keys -> [Files -> Nat]]
    BY <2>key, <2>fresh DEF cache_case_artifacts, Key, Case, Fresh
  <2>part. ASSUME next \in DOMAIN rows, CacheInterrupted, generations' = generations + 1
           PROVE  cache' \in [Keys -> [Files -> Nat]] /\ torn' \in BOOLEAN
    <3>1. Key \in Keys
      BY <2>key, <2>part DEF Key, Case
    <3>2. ASSUME NEW left \in SUBSET Files,
                 cache' = [cache EXCEPT ![Key] = [f \in Files |-> IF f \in left THEN @[f] ELSE 0]]
          PROVE  cache' \in [Keys -> [Files -> Nat]]
      BY <3>1, <3>2
    <3>3. ASSUME NEW left \in SUBSET CertFiles,
                 cache' = [cache EXCEPT ![Key] =
                              [f \in Files |-> IF f \in left THEN generations' ELSE 0]]
          PROVE  cache' \in [Keys -> [Files -> Nat]]
      <4>1. [f \in Files |-> IF f \in left THEN generations' ELSE 0] \in [Files -> Nat]
        BY <2>part
      <4> QED BY <3>1, <3>3, <4>1
    <3> QED BY <3>2, <3>3, <2>part DEF CacheInterrupted
  <2>record. ASSUME next \in DOMAIN rows, NEW status \in {"unsupported", "error"}, Record(status)
             PROVE  /\ summary' \in Seq([case : Cases, status : {"unsupported", "error"}])
                    /\ next' \in Nat \ {0} /\ pc' = "prepare"
    <3>1. [case |-> Case, status |-> status] \in [case : Cases, status : {"unsupported", "error"}]
      BY <2>key, <2>record DEF Case
    <3> QED BY <3>1, <2>record DEF Record, TypeOK
  <2>fault. ASSUME Fault PROVE faults' \in Nat
    BY <2>fault DEF Fault
  <2>install. ASSUME NEW g \in Nat PROVE install_case_trust_header(g) \subseteq Nat
    BY DEF install_case_trust_header, TypeOK
  <2>1. CASE StartRun
    <3>1. args' \in [kem : BOOLEAN, bundle : BOOLEAN, skip_flash : BOOLEAN, dry_run : BOOLEAN]
      BY <2>1, PreparationAssumption DEF StartRun
    <3>2. rows' \in Seq(Cases)
      BY <2>1, PreparationAssumption DEF StartRun, read_cases
    <3>3. torn' \in BOOLEAN
      BY <2>1 DEF StartRun, HalfWritten
    <3> QED BY <2>1, <3>1, <3>2, <3>3 DEF StartRun, TypeOK, disk
  <2>2. CASE Setup
    BY <2>2, <2>fault DEF Setup, TypeOK, disk
  <2>3. CASE Killed
    BY <2>3, <2>fault DEF Killed, TypeOK, disk
  <2>4. CASE SkipCached
    BY <2>4 DEF SkipCached, TypeOK, disk
  <2>5. CASE ensure_cached_cert_artifacts
    <3>1. CASE Generates /\ cache_case_artifacts /\ next' = next + 1 /\ UNCHANGED <<pc, torn, faults>>
      BY <2>5, <3>1, <2>fresh DEF ensure_cached_cert_artifacts, Generates, TypeOK
    <3>2. CASE Generates /\ CacheInterrupted /\ Fault /\ pc' = "aborted" /\ UNCHANGED next
      BY <2>5, <3>2, <2>part, <2>fault DEF ensure_cached_cert_artifacts, Generates, TypeOK
    <3>3. CASE GenerationFails /\ pc' = "aborted" /\ UNCHANGED <<next, torn>>
      BY <2>5, <3>3, <2>fault DEF ensure_cached_cert_artifacts, GenerationFails, TypeOK
    <3> QED BY <2>5, <3>1, <3>2, <3>3 DEF ensure_cached_cert_artifacts
  <2>6. CASE write_ca_bundle_header
    <3>1. \A n \in DOMAIN rows : cache[cert_artifact_cache_key(rows[n])]["ca.crt"] \in Nat
      BY <2>key DEF Files, CertFiles
    <3>2. bundle' \subseteq Nat
      BY <2>6, <3>1 DEF write_ca_bundle_header, sig_to_case
    <3> QED BY <2>6, <3>2 DEF write_ca_bundle_header, TypeOK, disk
  <2>7. CASE Unsupported
    BY <2>7, <2>record DEF Unsupported, Preparing, TypeOK, disk
  <2>8. CASE RestoreArtifacts
    <3>1. /\ cache[Key]["server.crt"] \in Nat /\ cache[Key]["server.key"] \in Nat
          /\ cache[Key][Header] \in Nat
      BY <2>8, <2>key DEF RestoreArtifacts, Preparing, Key, Case, Files, CertFiles, Header
    <3>2. dir' \in [crt : Nat, key : Nat, cas : SUBSET Nat]
      BY <2>8, <3>1, <2>install DEF RestoreArtifacts
    <3> QED BY <2>8, <3>2 DEF RestoreArtifacts, Preparing, TypeOK, disk
  <2>9. CASE NoArtifacts
    BY <2>9, <2>record DEF NoArtifacts, Preparing, TypeOK, disk
  <2>10. CASE generate_certs
    <3>0. next \in DOMAIN rows
      BY <2>10 DEF generate_certs, Preparing
    <3>1. CASE /\ Generates /\ cache_case_artifacts
               /\ dir' = [crt |-> generations', key |-> generations',
                          cas |-> install_case_trust_header(generations')]
               /\ pc' = "build" /\ UNCHANGED <<next, summary, torn, faults>>
      <4>1. generations' \in Nat
        BY <3>1 DEF Generates
      <4>2. dir' \in [crt : Nat, key : Nat, cas : SUBSET Nat]
        BY <3>1, <4>1, <2>install
      <4> QED BY <2>10, <3>0, <3>1, <4>1, <4>2, <2>fresh DEF generate_certs, Generates, TypeOK
    <3>2. CASE /\ Generates /\ CacheInterrupted /\ Fault /\ UNCHANGED dir
               /\ \/ Record("error")
                  \/ pc' = "killed" /\ UNCHANGED <<next, summary>>
      <4>1. /\ summary' \in Seq([case : Cases, status : {"unsupported", "error"}])
            /\ next' \in Nat \ {0} /\ pc' \in {"prepare", "killed"}
        BY <3>0, <3>2, <2>record DEF TypeOK
      <4> QED BY <2>10, <3>0, <3>2, <4>1, <2>part, <2>fault DEF generate_certs, Generates, TypeOK
    <3>3. CASE GenerationFails /\ Record("unsupported") /\ UNCHANGED <<dir, torn>>
      BY <2>10, <3>0, <3>3, <2>record, <2>fault DEF generate_certs, GenerationFails, TypeOK
    <3> QED BY <2>10, <3>1, <3>2, <3>3 DEF generate_certs
  <2>11. CASE Prepare
    <3>0. ASSUME NEW image \in build_firmware, next \in DOMAIN rows
          PROVE  image \in Images
      <4>1. firmware_profile_key(Case) \in Profiles
        BY <3>0, <2>key DEF firmware_profile_key, Profiles, Case, RunSigs, TypeOK, Cases
      <4>2. NewImage \in Images
        BY <3>0, <2>key, <4>1 DEF NewImage, Images, Case, TypeOK, Cases
      <4> QED BY <3>0, <4>2 DEF build_firmware, TypeOK
    <3>1. next \in DOMAIN rows
      BY <2>11 DEF Prepare, TypeOK
    <3>2. PICK image \in build_firmware :
             /\ prepared' = prepared \cup
                   {[case |-> Case, crt |-> dir.crt, key |-> dir.key, image |-> image]}
             /\ builds' = IF args.skip_flash THEN builds ELSE builds \cup {image}
      BY <2>11 DEF Prepare
    <3>3. image \in Images
      BY <3>0, <3>1
    <3>4. [case |-> Case, crt |-> dir.crt, key |-> dir.key, image |-> image]
             \in [case : Cases, crt : Nat, key : Nat, image : Images]
      BY <2>key, <3>1, <3>3 DEF TypeOK, Case
    <3>5. /\ prepared' \subseteq [case : Cases, crt : Nat, key : Nat, image : Images]
          /\ builds' \subseteq Images
      BY <3>2, <3>3, <3>4 DEF TypeOK
    <3> QED BY <2>11, <3>5 DEF Prepare, TypeOK, disk
  <2>12. CASE BuildFails
    BY <2>12, <2>record, <2>fault DEF BuildFails, TypeOK, disk
  <2>13. CASE EndPreparation
    BY <2>13 DEF EndPreparation, TypeOK, disk
  <2>14. CASE FlashSession
    BY <2>14 DEF FlashSession, TypeOK, run
  <2>15. CASE UNCHANGED vars
    BY <2>15 DEF vars, run, disk, TypeOK
  <2> QED BY <2>1, <2>2, <2>3, <2>4, <2>5, <2>6, <2>7, <2>8, <2>9, <2>10, <2>11, <2>12,
             <2>13, <2>14, <2>15 DEF Next
<1> QED BY <1>2

(* Every variable keeps its type, and a build has a row.                   *)
THEOREM PreparationTypeCorrect == Spec => []TypeOK
BY TypeInit, TypeStep, PTL DEF Spec

-----------------------------------------------------------------------------
(* The cache                                                               *)

LEMMA FreshValues ==
    ASSUME NEW g PROVE /\ \A f \in Files : Fresh(g)[f] = g
                       /\ \A f \in CertFiles : Fresh(g)[f] = g
                       /\ Fresh(g)["server.crt"] = g /\ Fresh(g)["ca.crt"] = g
                       /\ Fresh(g)["server.key"] = g /\ Fresh(g)[Header] = g
BY DEF Fresh, Files, CertFiles, Header

LEMMA WholeIsFresh ==
    ASSUME NEW e PROVE Whole(e) <=> \E g : g # 0 /\ e = Fresh(g)
BY FreshValues DEF Whole

(* What is whole is found by both lookups.                                 *)
LEMMA WholeIsFound ==
    ASSUME NEW e, Whole(e)
    PROVE  cached_cert_artifacts_exist(e) /\ restore_cached_case_artifacts(e)
BY WholeIsFresh, FreshValues DEF cached_cert_artifacts_exist, restore_cached_case_artifacts

(* A step changes at most the entry of the row at hand, and only one that  *)
(* is not whole.                                                           *)
LEMMA OneEntryChanges ==
    ASSUME TypeOK, [Next]_vars
    PROVE  \/ cache' = cache
           \/ /\ next \in DOMAIN rows /\ Key \in Keys /\ ~Whole(cache[Key])
              /\ \/ cache_case_artifacts /\ generations' = generations + 1 /\ torn' = torn
                 \/ torn' = TRUE
              /\ \A k \in Keys \ {Key} : cache'[k] = cache[k]
<1> USE DEF disk, run
<1>key. ASSUME next \in DOMAIN rows PROVE Key \in Keys
  <2>1. rows[next] \in Cases
    BY <1>key DEF TypeOK
  <2> QED BY <2>1 DEF Key, Case, cert_artifact_cache_key, Keys, Cases
<1>others. ASSUME Key \in Keys, cache_case_artifacts \/ CacheInterrupted
           PROVE  \A k \in Keys \ {Key} : cache'[k] = cache[k]
  BY <1>others DEF cache_case_artifacts, CacheInterrupted, TypeOK
<1>1. CASE ensure_cached_cert_artifacts
  <2>1. next \in DOMAIN rows /\ ~Whole(cache[Key])
    BY <1>1, WholeIsFound DEF ensure_cached_cert_artifacts, Missing
  <2>2. \/ cache_case_artifacts /\ generations' = generations + 1 /\ torn' = torn
        \/ CacheInterrupted
        \/ cache' = cache
    BY <1>1 DEF ensure_cached_cert_artifacts, Generates, GenerationFails
  <2> QED BY <2>1, <2>2, <1>key, <1>others DEF CacheInterrupted
<1>2. CASE generate_certs
  <2>1. next \in DOMAIN rows /\ ~Whole(cache[Key])
    BY <1>2, WholeIsFound DEF generate_certs, Preparing
  <2>2. \/ cache_case_artifacts /\ generations' = generations + 1 /\ torn' = torn
        \/ CacheInterrupted
        \/ cache' = cache
    BY <1>2 DEF generate_certs, Generates, GenerationFails
  <2> QED BY <2>1, <2>2, <1>key, <1>others DEF CacheInterrupted
<1>3. CASE StartRun \/ Setup \/ Killed \/ SkipCached \/ write_ca_bundle_header
  BY <1>3 DEF StartRun, Setup, Killed, SkipCached, write_ca_bundle_header
<1>4. CASE Unsupported \/ RestoreArtifacts \/ NoArtifacts \/ Prepare \/ BuildFails
           \/ EndPreparation \/ FlashSession \/ UNCHANGED vars
  BY <1>4 DEF Unsupported, RestoreArtifacts, NoArtifacts, Prepare, BuildFails, EndPreparation,
              FlashSession, vars
<1> QED BY <1>1, <1>2, <1>3, <1>4 DEF Next

LEMMA WholeStays ==
    ASSUME TypeOK, [Next]_vars, NEW k \in Keys, Whole(cache[k])
    PROVE  cache'[k] = cache[k]
BY OneEntryChanges

(* Credentials once whole in the cache are kept by every step.             *)
THEOREM CertsKept == Spec => CachedCertsKept
<1>1. TypeOK /\ [Next]_vars => [\A k \in Keys : Whole(cache[k]) => cache'[k] = cache[k]]_vars
  BY WholeStays
<1> QED BY <1>1, PreparationTypeCorrect, PTL DEF Spec, CachedCertsKept

-----------------------------------------------------------------------------
(* Credentials and firmware                                                *)

Holds(k, g) == g # 0 /\ cache[k] = Fresh(g)

(* The board or a build trusts, for each of its algorithms, the CA whose   *)
(* certificate the cache holds.                                            *)
Trusts(i) ==
    ~i.torn /\ (i.profile.kex = AnyKem \/ ~i.profile.bundle) =>
        \A s \in i.profile.sigs :
            /\ \E g \in i.cas : Holds([kex |-> i.profile.kex, sig |-> s], g)
            /\ IF i.profile.kex = AnyKem THEN i.kems = Kems ELSE i.profile.kex \in i.kems

ImagesTrust ==
    Trusts(flashed) /\ (\A i \in builds : Trusts(i)) /\ (\A p \in prepared : Trusts(p.image))

PreparedRows == \A p \in prepared : \E n \in DOMAIN rows : rows[n] = p.case

PreparedHeld ==
    ~torn => \A p \in prepared : Holds(cert_artifact_cache_key(p.case), p.crt) /\ p.key = p.crt

Bundling ==
    /\ pc = "setup" => next = 1
    /\ pc = "bundle" /\ ~torn => \A n \in DOMAIN rows : n < next =>
          /\ args.kem => Whole(cache[cert_artifact_cache_key(rows[n])])
          /\ \E m \in sig_to_case : m < next /\ rows[m].sig = rows[n].sig

BundleHeld ==
    pc \in {"prepare", "build", "sessions"} /\ args.bundle /\ args.kem /\ ~args.dry_run /\ ~torn =>
        \A s \in RunSigs : \E g \in bundle : Holds([kex |-> AnyKem, sig |-> s], g)

DirHeld ==
    pc = "build" /\ ~torn =>
        /\ Holds(Key, dir.crt) /\ dir.key = dir.crt /\ ~args.dry_run
        /\ dir.cas = IF args.bundle THEN bundle ELSE {dir.crt}

TornSeen == HalfWritten => torn

CredentialsInv ==
    /\ TypeOK /\ ImagesTrust /\ PreparedRows /\ PreparedHeld
    /\ Bundling /\ BundleHeld /\ DirHeld /\ TornSeen

LEMMA HoldsStays ==
    ASSUME TypeOK, [Next]_vars, NEW k \in Keys, NEW g, Holds(k, g)
    PROVE  Holds(k, g)'
BY WholeStays, WholeIsFresh DEF Holds

LEMMA RunKept ==
    ASSUME [Next]_vars, ~StartRun
    PROVE  args' = args /\ rows' = rows /\ (torn' = torn \/ torn' = TRUE)
<1> USE DEF run, disk
<1>1. CASE Setup \/ Killed \/ SkipCached \/ write_ca_bundle_header \/ Unsupported
           \/ RestoreArtifacts \/ NoArtifacts
  BY <1>1 DEF Setup, Killed, SkipCached, write_ca_bundle_header, Unsupported, RestoreArtifacts,
              NoArtifacts
<1>2. CASE Prepare \/ BuildFails \/ EndPreparation \/ FlashSession \/ UNCHANGED vars
  BY <1>2 DEF Prepare, BuildFails, EndPreparation, FlashSession, vars
<1>3. CASE ensure_cached_cert_artifacts \/ generate_certs
  BY <1>3 DEF ensure_cached_cert_artifacts, generate_certs, CacheInterrupted
<1> QED BY <1>1, <1>2, <1>3 DEF Next

LEMMA StaysUntorn ==
    ASSUME [Next]_vars, ~StartRun, ~torn'
    PROVE  ~torn /\ args' = args /\ rows' = rows
<1>1. args' = args /\ rows' = rows /\ (torn' = torn \/ torn' = TRUE)
  BY RunKept
<1>2. CASE torn' = torn
  BY <1>1, <1>2
<1>3. CASE torn' = TRUE
  BY <1>3
<1> QED BY <1>1, <1>2, <1>3

LEMMA PreparedKept ==
    ASSUME [Next]_vars, ~StartRun, ~Prepare
    PROVE  prepared' = prepared /\ builds' = builds
<1> USE DEF run, disk
<1>1. CASE Setup \/ Killed \/ SkipCached \/ write_ca_bundle_header \/ Unsupported
           \/ RestoreArtifacts \/ NoArtifacts
  BY <1>1 DEF Setup, Killed, SkipCached, write_ca_bundle_header, Unsupported, RestoreArtifacts,
              NoArtifacts
<1>2. CASE BuildFails \/ EndPreparation \/ FlashSession \/ UNCHANGED vars
  BY <1>2 DEF BuildFails, EndPreparation, FlashSession, vars
<1>3. CASE ensure_cached_cert_artifacts \/ generate_certs
  BY <1>3 DEF ensure_cached_cert_artifacts, generate_certs
<1> QED BY <1>1, <1>2, <1>3 DEF Next

LEMMA RowKey ==
    ASSUME TypeOK, NEW n \in DOMAIN rows
    PROVE  /\ rows[n] \in Cases /\ n \in Nat /\ n > 0
           /\ cert_artifact_cache_key(rows[n]) \in Keys
<1>1. rows[n] \in Cases
  BY DEF TypeOK
<1>2. n \in Nat /\ n > 0
  BY DEF TypeOK
<1> QED BY <1>1, <1>2 DEF cert_artifact_cache_key, Keys, Cases

LEMMA GeneratedWhole ==
    ASSUME TypeOK, Key \in Keys, cache_case_artifacts, generations' = generations + 1
    PROVE  generations' # 0 /\ cache'[Key] = Fresh(generations')
BY DEF cache_case_artifacts, TypeOK

LEMMA TornSeenStep ==
    ASSUME TypeOK, TornSeen, [Next]_vars PROVE TornSeen'
<1>1. CASE StartRun
  BY <1>1 DEF StartRun, TornSeen
<1>2. CASE ~StartRun
  <2>1. SUFFICES ASSUME ~torn, torn' = torn, NEW n \in DOMAIN rows,
                        cache'[cert_artifact_cache_key(rows[n])] # Nothing
                 PROVE  Whole(cache'[cert_artifact_cache_key(rows[n])])
    <3>1. args' = args /\ rows' = rows /\ (torn' = torn \/ torn' = TRUE)
      BY <1>2, RunKept
    <3> QED BY <2>1, <3>1 DEF TornSeen, HalfWritten, cert_artifact_cache_key
  <2> DEFINE k == cert_artifact_cache_key(rows[n])
  <2>2. k \in Keys
    BY RowKey
  <2>3. CASE cache'[k] = cache[k]
    BY <2>1, <2>3 DEF TornSeen, HalfWritten
  <2>4. CASE cache'[k] # cache[k]
    <3>1. k = Key /\ cache_case_artifacts /\ generations' = generations + 1
      BY <2>1, <2>2, <2>4, OneEntryChanges
    <3> QED BY <2>2, <3>1, GeneratedWhole, WholeIsFresh
  <2> QED BY <2>3, <2>4
<1> QED BY <1>1, <1>2

(* While nothing is half-written, an entry that is there is whole.         *)
LEMMA FoundIsWhole ==
    ASSUME TypeOK, TornSeen, ~torn, NEW n \in DOMAIN rows,
           NEW f \in Files, cache[cert_artifact_cache_key(rows[n])][f] # 0
    PROVE  \E g : Holds(cert_artifact_cache_key(rows[n]), g)
<1>1. cache[cert_artifact_cache_key(rows[n])] # Nothing
  BY DEF Nothing
<1> QED BY <1>1, WholeIsFresh DEF TornSeen, HalfWritten, Holds

LEMMA DirHeldStep ==
    ASSUME TypeOK, TornSeen, DirHeld, [Next]_vars PROVE DirHeld'
<1> USE DEF run, disk
<1> SUFFICES ASSUME pc' = "build", ~torn'
             PROVE  /\ Holds(Key, dir.crt)' /\ dir'.key = dir'.crt /\ ~args'.dry_run
                    /\ dir'.cas = IF args'.bundle THEN bundle' ELSE {dir'.crt}
  BY DEF DirHeld
<1>1. CASE RestoreArtifacts
  <2>1. next \in DOMAIN rows /\ ~torn /\ UNCHANGED <<args, rows, next, bundle, cache>>
    BY <1>1 DEF RestoreArtifacts, Preparing
  <2>2. PICK g : Holds(Key, g)
    BY <1>1, <2>1, FoundIsWhole
       DEF RestoreArtifacts, restore_cached_case_artifacts, Key, Case, Files, CertFiles
  <2>3. dir' = [crt |-> g, key |-> g, cas |-> install_case_trust_header(g)]
    BY <1>1, <2>2, FreshValues DEF RestoreArtifacts, Holds
  <2>4. Key' = Key
    BY <2>1 DEF Key, Case, cert_artifact_cache_key
  <2> QED BY <1>1, <2>1, <2>2, <2>3, <2>4
          DEF Holds, install_case_trust_header, RestoreArtifacts, Attempted
<1>2. CASE generate_certs
  <2>1. /\ next \in DOMAIN rows /\ ~args.dry_run
        /\ UNCHANGED <<args, rows, bundle>>
    BY <1>2 DEF generate_certs, Preparing, Attempted
  <2>2. /\ generations' = generations + 1 /\ cache_case_artifacts /\ next' = next
        /\ dir' = [crt |-> generations', key |-> generations',
                   cas |-> install_case_trust_header(generations')]
    BY <1>2 DEF generate_certs, Generates, Record
  <2>3. Key' = Key /\ Key \in Keys
    BY <2>1, <2>2, RowKey DEF Key, Case, cert_artifact_cache_key
  <2>4. Holds(Key, dir.crt)'
    BY <2>2, <2>3, GeneratedWhole DEF Holds
  <2> QED BY <2>1, <2>2, <2>4 DEF install_case_trust_header
<1>3. CASE UNCHANGED vars
  <2>1. Key' = Key
    BY <1>3 DEF vars, Key, Case, cert_artifact_cache_key
  <2> QED BY <1>3, <2>1 DEF vars, DirHeld, Holds
<1>4. CASE StartRun \/ Setup \/ Killed \/ SkipCached \/ write_ca_bundle_header \/ Unsupported
           \/ NoArtifacts
  BY <1>4 DEF StartRun, Setup, Killed, SkipCached, write_ca_bundle_header, Unsupported,
              NoArtifacts, Record
<1>5. CASE ensure_cached_cert_artifacts \/ Prepare \/ BuildFails \/ EndPreparation
           \/ FlashSession
  BY <1>5 DEF ensure_cached_cert_artifacts, Prepare, BuildFails, EndPreparation, FlashSession,
              Record
<1> QED BY <1>1, <1>2, <1>3, <1>4, <1>5 DEF Next

LEMMA PreparedRowsStep ==
    ASSUME TypeOK, PreparedRows, [Next]_vars PROVE PreparedRows'
<1>1. CASE StartRun
  BY <1>1 DEF StartRun, PreparedRows
<1>2. CASE Prepare
  BY <1>2 DEF Prepare, PreparedRows, TypeOK, Case
<1>3. CASE ~StartRun /\ ~Prepare
  BY <1>3, RunKept, PreparedKept DEF PreparedRows
<1> QED BY <1>1, <1>2, <1>3

LEMMA PreparedHeldStep ==
    ASSUME TypeOK, PreparedRows, PreparedHeld, DirHeld, [Next]_vars PROVE PreparedHeld'
<1>0. CASE StartRun
  BY <1>0 DEF StartRun, PreparedHeld
<1> SUFFICES ASSUME ~StartRun, ~torn', NEW p \in prepared'
             PROVE  Holds(cert_artifact_cache_key(p.case), p.crt)' /\ p.key = p.crt
  BY <1>0 DEF PreparedHeld
<1>1. ~torn /\ args' = args
  BY StaysUntorn
<1>2. cert_artifact_cache_key(p.case)' = cert_artifact_cache_key(p.case)
  BY <1>1 DEF cert_artifact_cache_key
<1>3. CASE p \in prepared
  <2>1. Holds(cert_artifact_cache_key(p.case), p.crt) /\ p.key = p.crt
    BY <1>1, <1>3 DEF PreparedHeld
  <2>2. cert_artifact_cache_key(p.case) \in Keys
    BY <1>3, RowKey DEF PreparedRows
  <2> QED BY <1>2, <2>1, <2>2, HoldsStays DEF Holds
<1>4. CASE p \notin prepared
  <2>1. Prepare
    BY <1>4, PreparedKept
  <2>2. p.case = Case /\ p.crt = dir.crt /\ p.key = dir.key /\ pc = "build" /\ cache' = cache
    BY <1>4, <2>1 DEF Prepare, disk
  <2> QED BY <1>1, <1>2, <2>2 DEF DirHeld, Holds, Key
<1> QED BY <1>3, <1>4

LEMMA BundlingStep ==
    ASSUME TypeOK, TornSeen, Bundling, [Next]_vars PROVE Bundling'
<1> USE DEF run, disk
<1>1. CASE StartRun
  BY <1>1 DEF StartRun, Bundling
<1>2. CASE Setup
  <2>1. next = 1 /\ next' = next /\ rows' = rows /\ pc' # "setup"
    BY <1>2 DEF Setup, Bundling
  <2>2. \A n \in DOMAIN rows : ~(n < 1)
    BY RowKey
  <2> QED BY <2>1, <2>2 DEF Bundling
<1>3. CASE SkipCached \/ ensure_cached_cert_artifacts
  <2>1. /\ pc = "bundle" /\ next \in DOMAIN rows /\ pc' # "setup" /\ args' = args /\ rows' = rows
        /\ next \in Nat
    BY <1>3 DEF SkipCached, ensure_cached_cert_artifacts, TypeOK
  <2>2. SUFFICES ASSUME pc' = "bundle", ~torn', NEW n \in DOMAIN rows, n < next'
                 PROVE  /\ args.kem => Whole(cache'[cert_artifact_cache_key(rows[n])])
                        /\ \E m \in sig_to_case : m < next' /\ rows[m].sig = rows[n].sig
    BY <2>1 DEF Bundling, cert_artifact_cache_key, sig_to_case
  <2>3. ~StartRun /\ ~torn
    <3>1. ~StartRun
      BY <2>1 DEF StartRun, Stopped
    <3> QED BY <2>2, <3>1, StaysUntorn
  <2>4. next' = next + 1
    BY <1>3, <2>2, <2>1 DEF SkipCached, ensure_cached_cert_artifacts
  <2>5. \A m \in DOMAIN rows : m \in Nat /\ cert_artifact_cache_key(rows[m]) \in Keys
    BY RowKey
  <2>6. ASSUME NEW m \in DOMAIN rows, m < next
        PROVE  /\ args.kem => Whole(cache'[cert_artifact_cache_key(rows[m])])
               /\ \E j \in sig_to_case : j < next /\ rows[j].sig = rows[m].sig
    <3>1. /\ args.kem => Whole(cache[cert_artifact_cache_key(rows[m])])
          /\ \E j \in sig_to_case : j < next /\ rows[j].sig = rows[m].sig
      BY <2>1, <2>3, <2>6 DEF Bundling
    <3>2. cert_artifact_cache_key(rows[m]) \in Keys
      BY <2>5
    <3> QED BY <3>1, <3>2, WholeStays
  <2>9. next \in Nat /\ \A j \in sig_to_case : j \in Nat
    BY <2>1, <2>5 DEF sig_to_case
  <2>7. CASE n < next
    <3>1. PICK j \in sig_to_case : j < next /\ rows[j].sig = rows[n].sig
      BY <2>6, <2>7
    <3>2. j < next'
      BY <2>4, <2>9, <3>1
    <3> QED BY <2>6, <2>7, <3>1, <3>2
  <2>8. CASE n = next
    <3>1. CASE next \notin sig_to_case
      <4>1. PICK m \in 1 .. next - 1 : rows[m].sig = rows[next].sig
        BY <2>1, <3>1 DEF sig_to_case
      <4>2. m \in DOMAIN rows /\ m < next
        BY <2>1, <4>1 DEF TypeOK
      <4>3. args.kem => cert_artifact_cache_key(rows[m]) = cert_artifact_cache_key(rows[next])
        BY <4>1 DEF cert_artifact_cache_key
      <4>4. \A j \in sig_to_case : j \in Nat
        BY <2>5 DEF sig_to_case
      <4> QED BY <2>1, <2>4, <2>6, <2>8, <4>1, <4>2, <4>3, <4>4
    <3>2. CASE next \in sig_to_case
      <4>1. Whole(cache'[Key])
        <5>1. CASE SkipCached
          <6>1. cached_cert_artifacts_exist(cache[Key]) /\ cache' = cache
            BY <3>2, <5>1 DEF SkipCached, Missing
          <6>2. cache[Key]["server.crt"] # 0 /\ "server.crt" \in Files
            BY <6>1 DEF cached_cert_artifacts_exist, CertFiles, Files
          <6> QED BY <2>1, <2>3, <6>1, <6>2, FoundIsWhole, WholeIsFresh DEF Holds, Key, Case
        <5>2. CASE ensure_cached_cert_artifacts
          <6>1. generations' = generations + 1 /\ cache_case_artifacts
            BY <2>2, <5>2 DEF ensure_cached_cert_artifacts, Generates
          <6>2. Key \in Keys
            BY <2>1, <2>5 DEF Key, Case
          <6> QED BY <6>1, <6>2, GeneratedWhole, WholeIsFresh
        <5> QED BY <1>3, <5>1, <5>2
      <4> QED BY <2>1, <2>4, <2>8, <3>2, <4>1 DEF Key, Case
    <3> QED BY <3>1, <3>2
  <2> QED BY <2>1, <2>2, <2>4, <2>5, <2>7, <2>8
<1>4. CASE UNCHANGED vars
  BY <1>4 DEF vars, Bundling, cert_artifact_cache_key, sig_to_case
<1>5. CASE Killed \/ write_ca_bundle_header \/ Unsupported \/ RestoreArtifacts \/ NoArtifacts
           \/ generate_certs
  BY <1>5 DEF Killed, write_ca_bundle_header, Unsupported, RestoreArtifacts, NoArtifacts,
              generate_certs, Record, Bundling
<1>6. CASE Prepare \/ BuildFails \/ EndPreparation \/ FlashSession
  BY <1>6 DEF Prepare, BuildFails, EndPreparation, FlashSession, Record, Bundling
<1> QED BY <1>1, <1>2, <1>3, <1>4, <1>5, <1>6 DEF Next

LEMMA BundleHeldStep ==
    ASSUME TypeOK, Bundling, BundleHeld, [Next]_vars PROVE BundleHeld'
<1> USE DEF run, disk
<1>1. CASE StartRun
  BY <1>1 DEF StartRun, BundleHeld
<1> SUFFICES ASSUME ~StartRun, pc' \in {"prepare", "build", "sessions"}, args'.bundle, args'.kem,
                    ~args'.dry_run, ~torn', NEW s \in RunSigs'
             PROVE  \E g \in bundle' : Holds([kex |-> AnyKem, sig |-> s], g)'
  BY <1>1 DEF BundleHeld
<1>2. ~torn /\ args' = args /\ rows' = rows
  BY StaysUntorn
<1>3. s \in RunSigs
  BY <1>2 DEF RunSigs
<1>4. CASE pc \in {"prepare", "build", "sessions"}
  <2>1. PICK g \in bundle : Holds([kex |-> AnyKem, sig |-> s], g)
    BY <1>2, <1>3, <1>4 DEF BundleHeld
  <2>2. [kex |-> AnyKem, sig |-> s] \in Keys
    BY <1>3, RowKey DEF RunSigs, Keys, Cases
  <2>3. Holds([kex |-> AnyKem, sig |-> s], g)'
    BY <2>1, <2>2, HoldsStays
  <2>4. bundle' = bundle
    <3>1. CASE Killed \/ Unsupported \/ RestoreArtifacts \/ NoArtifacts \/ generate_certs
      BY <3>1 DEF Killed, Unsupported, RestoreArtifacts, NoArtifacts, generate_certs
    <3>2. CASE Prepare \/ BuildFails \/ EndPreparation \/ FlashSession \/ UNCHANGED vars
      BY <3>2 DEF Prepare, BuildFails, EndPreparation, FlashSession, vars
    <3>3. ~Setup /\ ~SkipCached /\ ~ensure_cached_cert_artifacts /\ ~write_ca_bundle_header
      BY <1>4 DEF Setup, SkipCached, ensure_cached_cert_artifacts, write_ca_bundle_header
    <3> QED BY <3>1, <3>2, <3>3 DEF Next
  <2> QED BY <2>1, <2>3, <2>4
<1>5. CASE pc \notin {"prepare", "build", "sessions"}
  <2>1. write_ca_bundle_header
    <3>1. ~Setup /\ ~Killed /\ ~SkipCached /\ ~ensure_cached_cert_artifacts /\ ~Unsupported
      BY <1>2, <1>5 DEF Setup, Killed, SkipCached, ensure_cached_cert_artifacts, Unsupported,
                        Preparing
    <3>2. ~RestoreArtifacts /\ ~NoArtifacts /\ ~generate_certs
      BY <1>5 DEF RestoreArtifacts, NoArtifacts, generate_certs, Preparing
    <3>3. ~Prepare /\ ~BuildFails /\ ~EndPreparation /\ ~FlashSession /\ ~UNCHANGED vars
      BY <1>5 DEF Prepare, BuildFails, EndPreparation, FlashSession, vars
    <3> QED BY <3>1, <3>2, <3>3 DEF Next
  <2>2. PICK n \in DOMAIN rows : rows[n].sig = s
    BY <1>3 DEF RunSigs
  <2>3. pc = "bundle" /\ n < next /\ cache' = cache
    BY <2>1 DEF write_ca_bundle_header, TypeOK
  <2>4. PICK m \in sig_to_case : m < next /\ rows[m].sig = s
    BY <1>2, <2>2, <2>3 DEF Bundling
  <2>5. m \in DOMAIN rows /\ Whole(cache[cert_artifact_cache_key(rows[m])])
    BY <1>2, <2>3, <2>4 DEF Bundling, sig_to_case
  <2>6. cert_artifact_cache_key(rows[m]) = [kex |-> AnyKem, sig |-> s]
    BY <1>2, <2>4 DEF cert_artifact_cache_key
  <2>7. PICK g : g # 0 /\ cache[cert_artifact_cache_key(rows[m])] = Fresh(g)
    BY <2>5, WholeIsFresh
  <2>8. g \in bundle'
    BY <2>1, <2>4, <2>7, FreshValues DEF write_ca_bundle_header
  <2> QED BY <2>3, <2>6, <2>7, <2>8 DEF Holds
<1> QED BY <1>4, <1>5

LEMMA TrustsStays ==
    ASSUME TypeOK, [Next]_vars, NEW i \in Images, Trusts(i)
    PROVE  Trusts(i)'
<1> SUFFICES ASSUME ~i.torn, i.profile.kex = AnyKem \/ ~i.profile.bundle, NEW s \in i.profile.sigs
             PROVE  \E g \in i.cas : Holds([kex |-> i.profile.kex, sig |-> s], g)'
  BY DEF Trusts
<1>1. [kex |-> i.profile.kex, sig |-> s] \in Keys
  BY DEF Images, Profiles, Keys
<1>2. PICK g \in i.cas : Holds([kex |-> i.profile.kex, sig |-> s], g)
  BY DEF Trusts
<1> QED BY <1>1, <1>2, HoldsStays

LEMMA NewImageTrusts ==
    ASSUME TypeOK, BundleHeld, DirHeld, pc = "build" PROVE Trusts(NewImage)
<1> DEFINE profile == firmware_profile_key(Case)
<1>0. next \in DOMAIN rows /\ Case \in Cases
  BY RowKey DEF TypeOK, Case
<1>1. /\ NewImage.profile = profile /\ NewImage.cas = dir.cas /\ NewImage.torn = torn
      /\ NewImage.kems = IF args.kem THEN Kems ELSE {Case.kex}
  BY DEF NewImage
<1> SUFFICES ASSUME ~torn, profile.kex = AnyKem \/ ~profile.bundle, NEW s \in profile.sigs
             PROVE  /\ \E g \in dir.cas : Holds([kex |-> profile.kex, sig |-> s], g)
                    /\ IF profile.kex = AnyKem THEN NewImage.kems = Kems
                                               ELSE profile.kex \in NewImage.kems
  BY <1>1 DEF Trusts
<1>2. /\ profile.kex = (IF args.kem THEN AnyKem ELSE Case.kex) /\ profile.bundle = args.bundle
      /\ profile.sigs = (IF args.bundle THEN RunSigs ELSE {Case.sig})
  BY DEF firmware_profile_key
<1>3. Case.kex # AnyKem
  BY <1>0, PreparationAssumption DEF Cases
<1>4. /\ Holds(Key, dir.crt) /\ ~args.dry_run
      /\ dir.cas = IF args.bundle THEN bundle ELSE {dir.crt}
  BY DEF DirHeld
<1>5. CASE args.bundle
  BY <1>1, <1>2, <1>3, <1>4, <1>5 DEF BundleHeld
<1>6. CASE ~args.bundle
  <2>1. s = Case.sig /\ Key = [kex |-> profile.kex, sig |-> s]
    BY <1>2, <1>6 DEF Key, cert_artifact_cache_key
  <2>2. dir.crt \in dir.cas /\ Holds([kex |-> profile.kex, sig |-> s], dir.crt)
    BY <1>4, <1>6, <2>1
  <2> QED BY <1>1, <1>2, <1>3, <2>2
<1> QED BY <1>5, <1>6

LEMMA ImagesTrustStep ==
    ASSUME TypeOK, ImagesTrust, BundleHeld, DirHeld, [Next]_vars PROVE ImagesTrust'
<1> USE DEF run, disk
<1>1. \A i \in {flashed} \cup builds \cup {p.image : p \in prepared} : i \in Images /\ Trusts(i)'
  BY TrustsStays DEF TypeOK, ImagesTrust
<1>2. flashed' \in {flashed} \cup {p.image : p \in prepared}
  <2>1. CASE FlashSession
    BY <2>1 DEF FlashSession
  <2>2. CASE StartRun \/ Setup \/ Killed \/ SkipCached \/ ensure_cached_cert_artifacts
             \/ write_ca_bundle_header \/ Unsupported \/ RestoreArtifacts
    BY <2>2 DEF StartRun, Setup, Killed, SkipCached, ensure_cached_cert_artifacts,
                write_ca_bundle_header, Unsupported, RestoreArtifacts
  <2>3. CASE NoArtifacts \/ generate_certs \/ Prepare \/ BuildFails \/ EndPreparation
             \/ UNCHANGED vars
    BY <2>3 DEF NoArtifacts, generate_certs, Prepare, BuildFails, EndPreparation, vars
  <2> QED BY <2>1, <2>2, <2>3 DEF Next
<1>3. CASE StartRun
  BY <1>1, <1>2, <1>3 DEF StartRun, ImagesTrust
<1>4. CASE Prepare
  <2>1. PICK image \in build_firmware :
           /\ prepared' = prepared \cup
                 {[case |-> Case, crt |-> dir.crt, key |-> dir.key, image |-> image]}
           /\ builds' = IF args.skip_flash THEN builds ELSE builds \cup {image}
    BY <1>4 DEF Prepare
  <2>2. pc = "build" /\ UNCHANGED cache
    BY <1>4 DEF Prepare
  <2>3. Trusts(image)'
    <3>1. CASE image \in {flashed} \cup builds
      BY <1>1, <3>1
    <3>2. CASE image \notin {flashed} \cup builds
      <4>1. image = NewImage
        BY <3>2 DEF build_firmware
      <4> QED BY <2>2, <4>1, NewImageTrusts DEF Trusts, Holds
    <3> QED BY <3>1, <3>2
  <2> QED BY <1>1, <1>2, <2>1, <2>3 DEF ImagesTrust
<1>5. CASE ~StartRun /\ ~Prepare
  BY <1>1, <1>2, <1>5, PreparedKept DEF ImagesTrust
<1> QED BY <1>3, <1>4, <1>5

LEMMA CredentialsInvariant == Spec => []CredentialsInv
<1>1. Init => CredentialsInv
  <2> SUFFICES ASSUME Init PROVE CredentialsInv
    OBVIOUS
  <2>1. TypeOK
    BY TypeInit
  <2>2. ImagesTrust /\ PreparedRows /\ PreparedHeld
    BY DEF Init, Erased, ImagesTrust, Trusts, PreparedRows, PreparedHeld
  <2>3. Bundling /\ BundleHeld /\ DirHeld /\ TornSeen
    BY DEF Init, Bundling, BundleHeld, DirHeld, TornSeen, HalfWritten
  <2> QED BY <2>1, <2>2, <2>3 DEF CredentialsInv
<1>2. CredentialsInv /\ [Next]_vars => CredentialsInv'
  BY TypeStep, ImagesTrustStep, PreparedRowsStep, PreparedHeldStep, BundlingStep, BundleHeldStep,
     DirHeldStep, TornSeenStep DEF CredentialsInv
<1> QED BY <1>1, <1>2, PTL DEF Spec

(* What a prepared case serves is what the cache holds.                    *)
THEOREM CacheHoldsPrepared == Spec => []CacheCurrent
<1>1. CredentialsInv => CacheCurrent
  BY DEF CredentialsInv, PreparedHeld, CacheCurrent, Holds
<1> QED BY <1>1, CredentialsInvariant, PTL

(* A prepared case's certificate, key and KEM fit the firmware it runs.    *)
THEOREM PreparedFits == Spec => []FirmwareFits
<1>1. CredentialsInv => FirmwareFits
  <2> SUFFICES ASSUME CredentialsInv, NEW p \in prepared, ~torn, ~p.image.torn,
                      args.kem \/ ~args.bundle, p.image.profile = firmware_profile_key(p.case)
               PROVE  p.case.kex \in p.image.kems /\ p.crt \in p.image.cas /\ p.crt = p.key
    BY DEF FirmwareFits
  <2>1. PICK n \in DOMAIN rows : rows[n] = p.case
    BY DEF CredentialsInv, PreparedRows
  <2>2. p.case \in Cases /\ p.case.kex \in Kems /\ p.case.kex # AnyKem
    BY <2>1, RowKey, PreparationAssumption DEF CredentialsInv, Cases
  <2>3. /\ p.image.profile.kex = (IF args.kem THEN AnyKem ELSE p.case.kex)
        /\ p.image.profile.bundle = args.bundle
        /\ p.image.profile.sigs = (IF args.bundle THEN RunSigs ELSE {p.case.sig})
    BY DEF firmware_profile_key
  <2>4. p.case.sig \in p.image.profile.sigs
    BY <2>1, <2>3 DEF RunSigs
  <2>5. cert_artifact_cache_key(p.case) = [kex |-> p.image.profile.kex, sig |-> p.case.sig]
    BY <2>3 DEF cert_artifact_cache_key
  <2>6. Trusts(p.image)
    BY DEF CredentialsInv, ImagesTrust
  <2>7. PICK g \in p.image.cas : Holds(cert_artifact_cache_key(p.case), g)
    BY <2>3, <2>4, <2>5, <2>6 DEF Trusts
  <2>8. p.case.kex \in p.image.kems
    BY <2>2, <2>3, <2>4, <2>6 DEF Trusts
  <2>9. Holds(cert_artifact_cache_key(p.case), p.crt) /\ p.crt = p.key
    BY DEF CredentialsInv, PreparedHeld
  <2>10. p.crt = g
    <3>1. Fresh(g) = Fresh(p.crt)
      BY <2>7, <2>9 DEF Holds
    <3>2. Fresh(g)["server.crt"] = g /\ Fresh(p.crt)["server.crt"] = p.crt
      BY FreshValues
    <3> QED BY <3>1, <3>2
  <2> QED BY <2>7, <2>8, <2>9, <2>10
<1> QED BY <1>1, CredentialsInvariant, PTL

-----------------------------------------------------------------------------
(* Without a fault nothing is ever half-written, on the disk or in an      *)
(* image, over any number of runs.                                         *)
Entire == \A k \in Keys : cache[k] = Nothing \/ Whole(cache[k])

ImagesSound ==
    ~flashed.torn /\ (\A i \in builds : ~i.torn) /\ (\A p \in prepared : ~p.image.torn)

Untroubled == faults = 0 => ~torn /\ Entire /\ ImagesSound

(* An image that is built or found among the builds is that of the row.    *)
OwnProfile ==
    ~args.skip_flash => \A p \in prepared : p.image.profile = firmware_profile_key(p.case)

LEMMA FaultsLast ==
    ASSUME TypeOK, [Next]_vars, faults' = 0
    PROVE  faults = 0 /\ (torn' = torn \/ StartRun)
<1> USE DEF run, disk, Fault
<1>0. faults \in Nat
  BY DEF TypeOK
<1>1. CASE StartRun
  BY <1>1 DEF StartRun
<1>2. CASE Setup \/ Killed \/ SkipCached \/ write_ca_bundle_header \/ Unsupported
           \/ RestoreArtifacts \/ NoArtifacts
  BY <1>0, <1>2 DEF Setup, Killed, SkipCached, write_ca_bundle_header, Unsupported,
                    RestoreArtifacts, NoArtifacts
<1>3. CASE Prepare \/ BuildFails \/ EndPreparation \/ FlashSession \/ UNCHANGED vars
  BY <1>0, <1>3 DEF Prepare, BuildFails, EndPreparation, FlashSession, vars
<1>4. CASE ensure_cached_cert_artifacts
  BY <1>0, <1>4 DEF ensure_cached_cert_artifacts, GenerationFails
<1>5. CASE generate_certs
  BY <1>0, <1>5 DEF generate_certs, GenerationFails
<1> QED BY <1>1, <1>2, <1>3, <1>4, <1>5 DEF Next

LEMMA FlashedNext ==
    ASSUME [Next]_vars
    PROVE  flashed' = flashed \/ \E p \in prepared : flashed' = p.image
<1> USE DEF run, disk
<1>1. CASE FlashSession
  BY <1>1 DEF FlashSession
<1>2. CASE StartRun \/ Setup \/ Killed \/ SkipCached \/ ensure_cached_cert_artifacts
           \/ write_ca_bundle_header \/ Unsupported \/ RestoreArtifacts
  BY <1>2 DEF StartRun, Setup, Killed, SkipCached, ensure_cached_cert_artifacts,
              write_ca_bundle_header, Unsupported, RestoreArtifacts
<1>3. CASE NoArtifacts \/ generate_certs \/ Prepare \/ BuildFails \/ EndPreparation
           \/ UNCHANGED vars
  BY <1>3 DEF NoArtifacts, generate_certs, Prepare, BuildFails, EndPreparation, vars
<1> QED BY <1>1, <1>2, <1>3 DEF Next

LEMMA UntroubledNext ==
    ASSUME TypeOK, Untroubled, [Next]_vars PROVE Untroubled'
<1> SUFFICES ASSUME faults' = 0 PROVE ~torn' /\ Entire' /\ ImagesSound'
  BY Zenon DEF Untroubled
<1>0. ~torn /\ Entire /\ ImagesSound /\ (torn' = torn \/ StartRun)
  BY FaultsLast DEF Untroubled
<1>1. ~torn'
  <2>1. CASE StartRun
    <3>1. torn' = HalfWritten' /\ cache' = cache
      BY <2>1 DEF StartRun, disk
    <3>2. \A n \in DOMAIN rows' :
             [kex |-> IF args'.kem THEN AnyKem ELSE rows'[n].kex, sig |-> rows'[n].sig] \in Keys
      <4>1. TypeOK'
        BY TypeStep
      <4>2. \A n \in DOMAIN rows' : rows'[n] \in Cases
        BY <4>1 DEF TypeOK
      <4> QED BY <4>2 DEF Keys, Cases
    <3> QED BY <1>0, <3>1, <3>2 DEF HalfWritten, Entire, cert_artifact_cache_key
  <2> QED BY <1>0, <2>1
<1>2. Entire'
  <2> SUFFICES ASSUME NEW k \in Keys PROVE cache'[k] = Nothing \/ Whole(cache'[k])
    BY DEF Entire
  <2>1. CASE cache'[k] = cache[k]
    BY <1>0, <2>1 DEF Entire
  <2>2. CASE cache'[k] # cache[k]
    <3>1. k = Key /\ Key \in Keys /\ cache_case_artifacts /\ generations' = generations + 1
      BY <1>1, <2>2, OneEntryChanges
    <3> QED BY <3>1, GeneratedWhole, WholeIsFresh
  <2> QED BY <2>1, <2>2
<1>3. ImagesSound'
  <2>1. ~flashed'.torn
    BY <1>0, FlashedNext DEF ImagesSound
  <2>2. CASE StartRun
    BY <2>1, <2>2 DEF StartRun, ImagesSound
  <2>3. CASE Prepare
    <3>1. PICK image \in build_firmware :
             /\ prepared' = prepared \cup
                   {[case |-> Case, crt |-> dir.crt, key |-> dir.key, image |-> image]}
             /\ builds' = IF args.skip_flash THEN builds ELSE builds \cup {image}
      BY <2>3 DEF Prepare
    <3>2. ~image.torn
      BY <1>0 DEF build_firmware, NewImage, ImagesSound
    <3> QED BY <1>0, <2>1, <3>1, <3>2 DEF ImagesSound
  <2>4. CASE ~StartRun /\ ~Prepare
    BY <1>0, <2>1, <2>4, PreparedKept DEF ImagesSound
  <2> QED BY <2>2, <2>3, <2>4
<1> QED BY <1>1, <1>2, <1>3

LEMMA OwnProfileNext ==
    ASSUME OwnProfile, [Next]_vars PROVE OwnProfile'
<1>1. CASE StartRun
  BY <1>1 DEF StartRun, OwnProfile
<1>2. CASE ~StartRun
  <2>1. args' = args /\ rows' = rows
    BY <1>2, RunKept
  <2>2. \A c : firmware_profile_key(c)' = firmware_profile_key(c)
    BY <2>1 DEF firmware_profile_key, RunSigs
  <2>3. CASE Prepare
    <3> SUFFICES ASSUME ~args.skip_flash, NEW p \in prepared'
                 PROVE  p.image.profile = firmware_profile_key(p.case)
      BY <2>1, <2>2 DEF OwnProfile
    <3>1. PICK image \in build_firmware :
             prepared' = prepared \cup
                {[case |-> Case, crt |-> dir.crt, key |-> dir.key, image |-> image]}
      BY <2>3 DEF Prepare
    <3>2. image.profile = firmware_profile_key(Case)
      BY DEF build_firmware, NewImage
    <3> QED BY <3>1, <3>2 DEF OwnProfile
  <2>4. CASE ~Prepare
    BY <1>2, <2>1, <2>2, <2>4, PreparedKept DEF OwnProfile
  <2> QED BY <2>3, <2>4
<1> QED BY <1>1, <1>2

LEMMA UntroubledAlways == Spec => [](Untroubled /\ OwnProfile)
<1>1. Init => Untroubled /\ OwnProfile
  BY DEF Init, Untroubled, Entire, ImagesSound, Erased, OwnProfile
<1>2. TypeOK /\ Untroubled /\ OwnProfile /\ [Next]_vars => Untroubled' /\ OwnProfile'
  BY UntroubledNext, OwnProfileNext
<1> QED BY <1>1, <1>2, PreparationTypeCorrect, PTL DEF Spec

(* Unless a command fails or a run is killed, the excuses of FirmwareFits  *)
(* never apply to an image the runner builds: with universal firmware, or  *)
(* without the bundle, every prepared case gets the image of its own       *)
(* profile, which trusts its certificate and offers its KEM, and what it   *)
(* serves is what the cache holds, over any number of runs                 *)
(* (build_firmware(), firmware_profile_key(), cache_case_artifacts()).     *)
CasesFit ==
    faults = 0 =>
        \A p \in prepared :
            /\ cache[cert_artifact_cache_key(p.case)] = Fresh(p.crt)
            /\ ~args.skip_flash /\ (args.kem \/ ~args.bundle) =>
                  /\ p.image.profile = firmware_profile_key(p.case)
                  /\ p.case.kex \in p.image.kems /\ p.crt \in p.image.cas /\ p.crt = p.key

THEOREM UntroubledRunsFit == Spec => []CasesFit
<1>1. Untroubled /\ OwnProfile /\ FirmwareFits /\ CacheCurrent => CasesFit
  BY DEF Untroubled, ImagesSound, OwnProfile, FirmwareFits, CacheCurrent, CasesFit
<1> QED BY <1>1, UntroubledAlways, PreparedFits, CacheHoldsPrepared, PTL

-----------------------------------------------------------------------------
(* Accounts                                                                *)

Summaries(n) == {m \in DOMAIN summary : summary[m].case = rows[n]}

IsPrepared(n) == \E p \in prepared : p.case = rows[n]

Accounted(n) ==
    IF n < next /\ ~IsPrepared(n) THEN \E m \in DOMAIN summary : Summaries(n) = {m}
    ELSE Summaries(n) = {} /\ (IsPrepared(n) => n < next)

RowsDistinct == \A i, j \in DOMAIN rows : rows[i] = rows[j] => i = j

AccountInv ==
    /\ TypeOK /\ RowsDistinct
    /\ pc \in {"setup", "bundle"} => prepared = {} /\ summary = <<>>
    /\ pc = "setup" => next = 1
    /\ pc \in {"prepare", "build", "sessions"} => \A n \in DOMAIN rows : Accounted(n)

LEMMA RecordAccounts ==
    ASSUME TypeOK, TypeOK', RowsDistinct, NEW status, Record(status), next \in DOMAIN rows,
           UNCHANGED <<rows, prepared>>, \A n \in DOMAIN rows : Accounted(n)
    PROVE  \A n \in DOMAIN rows' : Accounted(n)'
<1> SUFFICES ASSUME NEW n \in DOMAIN rows PROVE Accounted(n)'
  OBVIOUS
<1>1. /\ DOMAIN summary' = DOMAIN summary \cup {Len(summary) + 1}
      /\ Len(summary) + 1 \notin DOMAIN summary
      /\ \A m \in DOMAIN summary : summary'[m] = summary[m]
      /\ summary'[Len(summary) + 1].case = rows[next]
  BY DEF Record, TypeOK, Case
<1>2. n \in Nat /\ next \in Nat /\ next' = next + 1 /\ rows' = rows /\ (IsPrepared(n)' <=> IsPrepared(n))
  BY RowKey DEF Record, IsPrepared, TypeOK
<1>3. CASE n = next
  <2>1. Summaries(n) = {} /\ ~IsPrepared(n)
    BY <1>2, <1>3 DEF Accounted
  <2>2. Summaries(n)' = {Len(summary) + 1}
    BY <1>1, <1>2, <1>3, <2>1 DEF Summaries
  <2> QED BY <1>1, <1>2, <1>3, <2>1, <2>2 DEF Accounted
<1>4. CASE n # next
  <2>1. rows[n] # rows[next]
    BY <1>4 DEF RowsDistinct
  <2>2. Summaries(n)' = Summaries(n)
    BY <1>1, <1>2, <2>1 DEF Summaries
  <2>3. n < next' <=> n < next
    BY <1>2, <1>4
  <2> QED BY <1>1, <1>2, <2>2, <2>3 DEF Accounted
<1> QED BY <1>3, <1>4

LEMMA AccountStep == AccountInv /\ [Next]_vars => AccountInv'
<1> USE DEF run, disk
<1> SUFFICES ASSUME AccountInv, [Next]_vars PROVE AccountInv'
  OBVIOUS
<1>t. TypeOK /\ TypeOK' /\ RowsDistinct
  BY TypeStep DEF AccountInv
<1>empty. ASSUME prepared' = {}, summary' = <<>>, next' = 1
          PROVE  \A n \in DOMAIN rows' : Accounted(n)'
  <2>1. \A n \in DOMAIN rows' : ~(n < 1)
    BY <1>t DEF TypeOK
  <2> QED BY <1>empty, <2>1 DEF Accounted, Summaries, IsPrepared
<1>same. ASSUME UNCHANGED <<rows, prepared, summary, next>>, pc \in {"prepare", "build", "sessions"}
         PROVE  \A n \in DOMAIN rows' : Accounted(n)'
  BY <1>same DEF AccountInv, Accounted, Summaries, IsPrepared
<1>record. ASSUME NEW status, Record(status), next \in DOMAIN rows, UNCHANGED <<rows, prepared>>,
                  pc \in {"prepare", "build"}
           PROVE  AccountInv'
  <2>1. \A n \in DOMAIN rows : Accounted(n)
    BY <1>record DEF AccountInv
  <2>2. \A n \in DOMAIN rows' : Accounted(n)'
    BY <1>t, <1>record, <2>1, RecordAccounts
  <2> QED BY <1>t, <1>record, <2>2 DEF AccountInv, RowsDistinct, Record
<1>1. CASE StartRun
  <2>1. rows' \in read_cases /\ prepared' = {} /\ summary' = <<>> /\ next' = 1
    BY <1>1 DEF StartRun
  <2>2. RowsDistinct'
    BY <2>1 DEF read_cases, RowsDistinct
  <2> QED BY <1>t, <1>empty, <2>1, <2>2 DEF AccountInv
<1>2. CASE Setup \/ SkipCached \/ ensure_cached_cert_artifacts \/ write_ca_bundle_header
  <2>1. /\ pc \in {"setup", "bundle"} /\ UNCHANGED <<rows, prepared, summary>>
        /\ pc' \in {"setup", "bundle", "prepare", "aborted"}
    BY <1>2 DEF Setup, SkipCached, ensure_cached_cert_artifacts, write_ca_bundle_header
  <2>2. prepared' = {} /\ summary' = <<>>
    BY <2>1 DEF AccountInv
  <2>3. pc' \in {"setup", "prepare"} => next' = 1
    BY <1>2 DEF AccountInv, Setup, SkipCached, ensure_cached_cert_artifacts, write_ca_bundle_header
  <2> QED BY <1>t, <1>empty, <2>1, <2>2, <2>3 DEF AccountInv, RowsDistinct
<1>3. CASE Killed
  BY <1>3, <1>t DEF Killed, AccountInv, RowsDistinct
<1>4. CASE Unsupported \/ NoArtifacts \/ BuildFails
  <2>1. /\ pc \in {"prepare", "build"} /\ UNCHANGED <<rows, prepared>>
        /\ next \in DOMAIN rows /\ \E status \in {"unsupported", "error"} : Record(status)
    BY <1>4, <1>t DEF Unsupported, NoArtifacts, BuildFails, Preparing, TypeOK
  <2> QED BY <2>1, <1>record
<1>5. CASE generate_certs
  <2>1. pc = "prepare" /\ next \in DOMAIN rows /\ UNCHANGED <<rows, prepared>>
    BY <1>5 DEF generate_certs, Preparing
  <2>2. \/ pc' \in {"build", "killed"} /\ UNCHANGED <<next, summary>>
        \/ \E status \in {"unsupported", "error"} : Record(status)
    BY <1>5 DEF generate_certs
  <2>3. CASE pc' \in {"build", "killed"} /\ UNCHANGED <<next, summary>>
    BY <1>t, <1>same, <2>1, <2>3 DEF AccountInv, RowsDistinct
  <2> QED BY <2>1, <2>2, <2>3, <1>record
<1>6. CASE RestoreArtifacts \/ EndPreparation \/ FlashSession
  <2>1. /\ pc \in {"prepare", "build", "sessions"} /\ pc' \in {"prepare", "build", "sessions"}
        /\ UNCHANGED <<rows, prepared, summary, next>>
    BY <1>6 DEF RestoreArtifacts, EndPreparation, FlashSession, Preparing
  <2> QED BY <1>t, <1>same, <2>1 DEF AccountInv, RowsDistinct
<1>7. CASE Prepare
  <2>1. /\ pc = "build" /\ pc' = "prepare" /\ next' = next + 1 /\ UNCHANGED <<rows, summary>>
        /\ \E p : p.case = rows[next] /\ prepared' = prepared \cup {p}
    <3>1. PICK image : prepared' = prepared \cup
                {[case |-> Case, crt |-> dir.crt, key |-> dir.key, image |-> image]}
      BY <1>7 DEF Prepare
    <3>2. [case |-> Case, crt |-> dir.crt, key |-> dir.key, image |-> image].case = rows[next]
      BY DEF Case
    <3> QED BY <1>7, <3>1, <3>2 DEF Prepare
  <2>2. next \in DOMAIN rows /\ next \in Nat
    BY <1>t, <2>1 DEF TypeOK
  <2>3. ASSUME NEW n \in DOMAIN rows PROVE Accounted(n)'
    <3>1. Accounted(n) /\ n \in Nat /\ Summaries(n)' = Summaries(n)
      BY <1>t, <2>1, RowKey DEF AccountInv, Summaries
    <3>2. CASE n = next
      BY <2>1, <2>2, <3>1, <3>2 DEF Accounted, IsPrepared
    <3>3. CASE n # next
      <4>1. rows[n] # rows[next]
        BY <1>t, <2>2, <3>3 DEF RowsDistinct
      <4>2. IsPrepared(n)' <=> IsPrepared(n)
        BY <2>1, <4>1 DEF IsPrepared
      <4>3. n < next' <=> n < next
        BY <2>1, <2>2, <3>1, <3>3
      <4> QED BY <2>1, <3>1, <4>2, <4>3 DEF Accounted
    <3> QED BY <3>2, <3>3
  <2> QED BY <1>t, <2>1, <2>3 DEF AccountInv, RowsDistinct
<1>8. CASE UNCHANGED vars
  <2>1. UNCHANGED <<pc, rows, prepared, summary, next>>
    BY <1>8 DEF vars
  <2> QED BY <1>t, <1>same, <2>1 DEF AccountInv, RowsDistinct
<1> QED BY <1>1, <1>2, <1>3, <1>4, <1>5, <1>6, <1>7, <1>8 DEF Next

(* Each case met is prepared or has one row of summary.csv, and not both.  *)
THEOREM EveryRowAccounted == Spec => []RowsAccounted
<1>1. Init => AccountInv
  BY TypeInit DEF Init, AccountInv, RowsDistinct
<1>2. AccountInv => RowsAccounted
  <2> SUFFICES ASSUME AccountInv, pc \in {"prepare", "build", "sessions"}, NEW n \in DOMAIN rows
               PROVE  IF n < next /\ ~IsPrepared(n)
                      THEN \E m \in DOMAIN summary : Summaries(n) = {m}
                      ELSE Summaries(n) = {} /\ (IsPrepared(n) => n < next)
    BY Zenon DEF RowsAccounted, Summaries, IsPrepared
  <2> QED BY DEF AccountInv, Accounted
<1> QED BY <1>1, <1>2, AccountStep, PTL DEF Spec
=============================================================================
