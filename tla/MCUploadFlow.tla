----------------------------- MODULE MCUploadFlow -----------------------------
(* UploadFlow on a few uploads and flows, for TLC.                         *)
EXTENDS UploadFlow

\* Bound: in one flow a call, a failure and a leave are all explored together; once a
\* second flow is open, any two of the three.
FewDisturbances == flows > 1 => started + failures + leaves <= 2
=============================================================================
