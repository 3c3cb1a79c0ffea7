----------------------------- MODULE MCALState -----------------------------
(* Constants of ALState for TLC. *)
EXTENDS ALState

MCRequests == RequestCodes
\* A mailbox or a process data SyncManager may be wrong.
MCBadSets == {{}, {0}, {2}, {3}}
\* Smaller sets, for interrupts and for the temporal properties of the polled loop.
MCFewRequests == {"init", "preop", "safeop", "op", "unknown"}
MCFewBadSets == {{}, {0}, {2}}
MCLiveBadSets == {{}, {0}, {3}}
=============================================================================
