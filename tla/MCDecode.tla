-------------------------------- MODULE MCDecode --------------------------------
(***************************************************************************)
(* An instance of the two decoders for TLC: one call of either.  Bytes     *)
(* have four values; 128-bit integers are three bytes, 256-bit ones four.  *)
(***************************************************************************)
EXTENDS EvmDecode

CONSTANTS LenSize, Direct   \* see Borsh and SvmDecode

EvmCallers == INSTANCE EvmJobs
SvmCallers == INSTANCE SvmJobs

EvmAll == EvmCallers!AllJobs
SvmAll == SvmCallers!AllJobs

Svm == INSTANCE SvmDecode WITH Jobs <- SvmAll

OfEvm == job.call \in {"events", "call"}

DecodeInit == Init \/ Svm!Init

DecodeNext == IF OfEvm THEN Next ELSE Svm!Next

DecodeSpec == DecodeInit /\ [][DecodeNext]_vars

\* RowsFaithful of EvmDecode: decoded logs and call data show, row by row, what the
\* rows hold.
EvmRowsFaithful == OfEvm => RowsFaithful

\* SchemaPredicted of EvmDecode: they have the schema that the signature announces.
EvmSchemaPredicted == OfEvm => SchemaPredicted

\* FailsByRowOrShape of EvmDecode: what makes decode_events and decode_call fail.
EvmFailsByRowOrShape == OfEvm => FailsByRowOrShape

\* RowsFaithful of SvmDecode: decoded instructions and program logs show, row by
\* row, what the grammar reads in the bytes.
SvmRowsFaithful == ~OfEvm => Svm!RowsFaithful

\* SchemaPredicted of SvmDecode: they have the schema that the signature announces.
SvmSchemaPredicted == ~OfEvm => Svm!SchemaPredicted

\* FailsByRowOrShape of SvmDecode: what makes decode_instructions_batch and
\* decode_logs_batch fail.
SvmFailsByRowOrShape == ~OfEvm => Svm!FailsByRowOrShape
=============================================================================
