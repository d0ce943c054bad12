------------------------- MODULE MCCasePreparation -------------------------
(* Command lines for CasePreparation: all four build modes, and the        *)
(* defaults with --skip-flash and with --dry-run.                          *)
EXTENDS CasePreparation

CONSTANTS k1, k2, s1, s2, s3

MarkedCases == {[kex |-> k2, sig |-> s2], [kex |-> k2, sig |-> s3]}

Option(kem, bundled, skip, dry) ==
    [kem |-> kem, bundle |-> bundled, skip_flash |-> skip, dry_run |-> dry]

AllOptions ==
    {Option(k, b, FALSE, FALSE) : k, b \in BOOLEAN}
        \cup {Option(TRUE, TRUE, TRUE, FALSE), Option(FALSE, FALSE, TRUE, FALSE), Option(TRUE, TRUE, FALSE, TRUE)}
=============================================================================
