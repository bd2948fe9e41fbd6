----------------------------- MODULE MCEventBus -----------------------------
(* Payloads with and without a percentage, totals and rubrics. *)
EXTENDS EventBus

NoNumber == -1

SomePayloads ==
    { [total |-> 1, max |-> 2, percentage |-> None, rubrics |-> <<4, 1>>],
      [total |-> 0, max |-> 0, percentage |-> None, rubrics |-> <<2>>],
      [total |-> 1, max |-> None, percentage |-> 30, rubrics |-> <<None>>] }
=============================================================================
