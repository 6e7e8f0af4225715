----------------------------- MODULE CertReload -----------------------------
(***************************************************************************)
(* Reload of the mTLS client certificate, glide-core/src/tls_reload/mod.rs.*)
(* The operator replaces the certificate file and the key file one after   *)
(* the other, in either order; the reload task reads the two files in      *)
(* separate awaits, validates the pair and then publishes the parameters   *)
(* and their fingerprint in two steps.  Material is known by its version.  *)
(***************************************************************************)
EXTENDS Naturals

CONSTANT MaxVersion    \* bound: rotations of the files

ASSUME CertAssumption == MaxVersion \in Nat

VARIABLES
    disk,          \* the two files
    adopted,       \* cached_params
    fingerprint,   \* fingerprint of the adopted certificate
    reload         \* the reload task: next step and what it has read

certVars == <<disk, adopted, fingerprint, reload>>

Version == 0..MaxVersion

Material == [cert : Version, key : Version]

CertTypeOK ==
    /\ disk \in Material
    /\ adopted \in Material
    /\ fingerprint \in Version
    /\ reload \in [pc : {"idle", "key", "validate", "params", "print"},
                   cert : Version, key : Version]

Matching(m) == m.cert = m.key

\* CertReloadManager::new loads and validates the first pair.
CertInit ==
    /\ disk = [cert |-> 0, key |-> 0]
    /\ adopted = disk
    /\ fingerprint = 0
    /\ reload = [pc |-> "idle", cert |-> 0, key |-> 0]

\* The operator replaces one file; the other follows before the next rotation.
Rotate ==
    /\ \E f \in {"cert", "key"} :
        /\ disk[f] < MaxVersion
        /\ \A g \in {"cert", "key"} : disk[f] <= disk[g]
        /\ disk' = [disk EXCEPT ![f] = @ + 1]
    /\ UNCHANGED <<adopted, fingerprint, reload>>

\* A tick of the timer: load_and_validate reads the certificate file, ...
ReadCert ==
    /\ reload.pc = "idle"
    /\ reload' = [reload EXCEPT !.pc = "key", !.cert = disk.cert]
    /\ UNCHANGED <<disk, adopted, fingerprint>>

\* ... then the key file.
ReadKey ==
    /\ reload.pc = "key"
    /\ reload' = [reload EXCEPT !.pc = "validate", !.key = disk.key]
    /\ UNCHANGED <<disk, adopted, fingerprint>>

\* validate_client_tls_params refuses a key that is not the certificate's.
Validates(m) == Matching(m)

\* A refused pair and an unchanged fingerprint leave the adopted material alone.
Validate ==
    /\ reload.pc = "validate"
    /\ reload' = [reload EXCEPT !.pc =
           IF Validates(reload) /\ fingerprint # reload.cert THEN "params" ELSE "idle"]
    /\ UNCHANGED <<disk, adopted, fingerprint>>

WriteParams ==
    /\ reload.pc = "params"
    /\ adopted' = [cert |-> reload.cert, key |-> reload.key]
    /\ reload' = [reload EXCEPT !.pc = "print"]
    /\ UNCHANGED <<disk, fingerprint>>

WriteFingerprint ==
    /\ reload.pc = "print"
    /\ fingerprint' = reload.cert
    /\ reload' = [reload EXCEPT !.pc = "idle"]
    /\ UNCHANGED <<disk, adopted>>

handle_reload == ReadCert \/ ReadKey \/ Validate \/ WriteParams \/ WriteFingerprint

\* A torn rotation is never adopted: the parameters handed to connections hold
\* a key that belongs to their certificate, although the two files are read and
\* replaced at different times.
AdoptedPairMatches == Matching(adopted)
=============================================================================
