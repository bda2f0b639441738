--------------------------- MODULE StamperLedger ---------------------------
(***************************************************************************)
(* The stamper implements CountLedger.  A count is held when the ledger of *)
(* the process has it, or, without a process, when the checkpoint and the  *)
(* journal will give it back.                                              *)
(***************************************************************************)
EXTENDS Stamper

Lasting   == IF Up THEN ledger ELSE Recoverable
Held      == {e \in Lasting : ~Past(e.delta.key.start)}
Done      == {c \in Chunk : handled[c].id # 0}
InFlight  == IF ticker = "sending" THEN pub.entries ELSE {}

Promise == INSTANCE CountLedger WITH
  done <- Done, held <- Held, taken <- InFlight, shown <- catalog.fine,
  fragile <- {e \in Held : e.id \in recent}

\* Every step of the stamper, of its timer, of a crash and of a restart, is a step
\* of CountLedger or changes nothing there.
ImplementsCountLedger == Promise!Spec
=============================================================================
