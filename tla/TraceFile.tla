----------------------------- MODULE TraceFile -----------------------------
(***************************************************************************)
(* What a trace file promises its readers, without rings, parsers and time *)
(* bases: entries are only ever appended, in the order of their times,     *)
(* which start at 0; the three times of an entry agree; and, if the        *)
(* recording has no gap, a completion answers the last entry of its        *)
(* request object, which is a submission, and names its time.              *)
(*                                                                         *)
(* A file that is cut short keeps all of this, so that the readers may     *)
(* rely on it whenever the writer stopped.                                 *)
(***************************************************************************)
EXTENDS Integers, Sequences

CONSTANT Word       \* 2^64: times are subtracted modulo Word

VARIABLES
    file,           \* the entries, oldest first
    gapless         \* the recording lost nothing between its first and last entry

fileVars == <<file, gapless>>

\* Entry k of the file f names the entry of its object that came last before it,
\* which is a submission.
AnswersLast(f, k) ==
    \E s \in 1 .. k - 1 :
        /\ f[s].tpoint_name = "NVME_IO_SUBMIT"
        /\ f[s].obj_id = f[k].obj_id
        /\ f[s].tsc_timestamp = f[k].tsc_obj_submit
        /\ \A m \in s + 1 .. k - 1 : f[m].obj_id # f[k].obj_id

\* Entry k may follow the entries before it.
Legal(f, k) ==
    /\ IF k = 1 THEN f[k].tsc_timestamp = 0
       ELSE f[k - 1].tsc_timestamp < f[k].tsc_timestamp
    /\ f[k].tsc_sc_time = (f[k].tsc_timestamp - f[k].tsc_obj_submit) % Word
    /\ f[k].tpoint_name = "NVME_IO_SUBMIT" => f[k].tsc_sc_time = 0
    /\ f[k].tpoint_name = "NVME_IO_COMPLETE" /\ gapless => AnswersLast(f, k)

FileInit == file = <<>> /\ gapless \in BOOLEAN

AppendEntry ==
    LET k == Len(file) + 1
    IN /\ Len(file') = k
       /\ SubSeq(file', 1, k - 1) = file
       /\ Legal(file', k)
       /\ UNCHANGED gapless

FileSpec == FileInit /\ [][AppendEntry]_fileVars
=============================================================================
