------------------------------ MODULE ApplyOutcome ------------------------------
(****************************************************************************)
(* How apply.rs reports where an archive stopped: the axes of outcome.rs,   *)
(* the classification of every failure, and the verdict, exit code and      *)
(* identities derived from the axes.                                        *)
(****************************************************************************)
EXTENDS SevenZip

Axes(interpretation, admission, verification, effect, phase) ==
    [interpretation |-> interpretation, admission |-> admission, verification |-> verification,
     effect |-> effect, phase |-> phase]

(****************************************************************************)
(* The constructors.                                                        *)
(****************************************************************************)
inspect_complete == Axes("Interpreted", "Admitted", "Complete", "NotRequested", "Complete")
materialize_committed == Axes("Interpreted", "Admitted", "Complete", "Committed", "Complete")

policy_compile_failed ==
    Axes("Indeterminate", "Denied", "StructureOnly", "NotRequested", "Admission")

source_failure(finding) ==
    Axes("Indeterminate", IF finding = "QuotaArchive" THEN "Denied" ELSE "NotEvaluated",
         "StructureOnly", "NotRequested", "Source")

structure_stop(interpretation, admission) ==
    Axes(interpretation, admission, "StructureOnly", "NotRequested", "Structure")

denied_at_admission == Axes("Interpreted", "Denied", "StructureOnly", "NotRequested", "Admission")

admitted_setup_failed == Axes("Interpreted", "Admitted", "StructureOnly", "Failed", "Effect")

admitted_publication_failed == Axes("Interpreted", "Admitted", "Complete", "Failed", "Complete")

admitted_verification_stop(finding, dest) ==
    LET effect == IF dest THEN "Failed" ELSE "NotRequested"
        Stop(i, a) == Axes(i, a, "Partial", effect, "Verification")
    IN  CASE finding = "SourceIo" -> Stop("Indeterminate", "Admitted")
          [] finding \in {"CodecDeflateInvalidStream", "CodecDeflateTrailingInput", "ZipDiffC4Offset"}
               -> Stop("Malformed", "NotEvaluated")
          [] finding \in {"MaterializeIo", "MaterializeUnsafeComponent", "MaterializeCommit",
                          "MaterializeExists"} -> Stop("Interpreted", "Admitted")
          [] OTHER -> Stop("Interpreted", "Denied")

(****************************************************************************)
(* The classifications.                                                     *)
(****************************************************************************)
\* The codecs' failure kinds fall into four classes.
ClassAxes(class) ==
    CASE class = "Indeterminate" -> structure_stop("Indeterminate", "NotEvaluated")
      [] class = "Unsupported" -> structure_stop("Unsupported", "NotEvaluated")
      [] class = "Denied" -> structure_stop("Interpreted", "Denied")
      [] class = "Malformed" -> structure_stop("Malformed", "NotEvaluated")

transform_failure_axes(codec, kind) ==
    ClassAxes(CASE codec = "gzip" -> gzip_failure_axes(kind) [] codec = "zstd" -> zstd_failure_axes(kind)
                [] codec = "xz" -> xz_failure_axes(kind) [] codec = "bzip2" -> bzip2_failure_axes(kind))

\* Mutant: a metadata limit is taken for a malformed archive.
ParseAxesForgetsMetadata(finding) ==
    CASE finding = "SourceIo" -> structure_stop("Indeterminate", "NotEvaluated")
      [] finding \in {"QuotaFiles", "QuotaOverflow"} -> structure_stop("Interpreted", "Denied")
      [] OTHER -> structure_stop("Malformed", "NotEvaluated")

parse_failure_axes(finding) ==
    CASE finding = "SourceIo" -> structure_stop("Indeterminate", "NotEvaluated")
      [] finding \in {"FormatUnsupported", "ZipDiffC5Zip64", "ZipEncoding", "TarFeatureUnsupported"}
           -> structure_stop("Unsupported", "NotEvaluated")
      [] finding \in {"QuotaFiles", "QuotaMetadata", "QuotaOverflow"}
           -> structure_stop("Interpreted", "Denied")
      [] OTHER -> structure_stop("Malformed", "NotEvaluated")

\* Under the ZIP64 profile only the absence of any ZIP64 construct is
\* unsupported; a wrong one is malformed.
parse_failure_axes_for_profile(finding, profile, absent) ==
    IF profile = Zip64Profile /\ finding = "ZipDiffC5Zip64" /\ ~absent
    THEN structure_stop("Malformed", "NotEvaluated") ELSE parse_failure_axes(finding)

\* A derived archive that its own audit refuses is the reader's fault.
tar_covering_failure_axes(wrapped) ==
    IF wrapped THEN structure_stop("Indeterminate", "NotEvaluated")
    ELSE structure_stop("Malformed", "Denied")

(****************************************************************************)
(* What the caller sees.                                                    *)
(****************************************************************************)
compat_verdict(axes) ==
    IF axes.admission = "Admitted" /\ axes.verification = "Complete"
       /\ axes.effect \in {"Committed", "NotRequested"}
    THEN "Allowed" ELSE "Rejected"

compat_exit_code(axes) ==
    CASE axes.admission = "Admitted" /\ axes.effect = "Failed" -> 3
      [] axes.admission = "Admitted" /\ axes.effect # "Failed" /\ axes.verification = "Complete" -> 0
      [] OTHER -> 2

\* The layout root is reported once there is evidence, the content root only
\* for a complete verification.
Identities(evidence, axes) ==
    (IF evidence THEN {"layout"} ELSE {})
    \cup (IF evidence /\ axes.verification = "Complete" THEN {"content"} ELSE {})

================================================================================
