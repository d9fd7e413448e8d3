--------------------------- MODULE OutagePermits ---------------------------
(***************************************************************************)
(* What the outage gate and the reservation ledger share: the platform     *)
(* clock, and the signed permits that a caller carries from the one to the *)
(* other.  They are Durable Objects of two Workers.                        *)
(***************************************************************************)
EXTENDS Integers, FiniteSets

CONSTANTS
  Requests,        \* runner request identifiers of the scale set
  Permits,         \* outage permit identifiers (UUIDs, never reused)
  None,            \* SQL NULL, and "no such row"
  PermitTTL,       \* PERMIT_TTL_MS of the outage gate
  MaxNow           \* bound of the clock

VARIABLES
  now,             \* the platform clock
  issued           \* history: every permit a caller has received

Unsigned == [request |-> None, expires |-> 0]
=============================================================================
