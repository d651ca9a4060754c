------------------------- MODULE MCAccountingSync -------------------------
(* Two invoices of one customer and a payment of the first, two workers    *)
(* and a single retry: races for the customer, the tokens and the record.  *)
EXTENDS AccountingSync, TLC

CONSTANTS i1, i2, p1, f1, f2, w1, w2, ann

MCInvoiceOf == [r \in Records |-> IF r = p1 THEN i1 ELSE NoRecord]
MCNameOf    == [r \in Records |-> ann]

Interchangeable == Permutations(Workers)
=============================================================================
