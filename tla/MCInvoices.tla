---------------------------- MODULE MCInvoices ----------------------------
(* Two requests on two invoices of one company.  The raw amounts 4, 14 and *)
(* 20 tenths of a cent are stored as 0, 1 and 2 cents.                     *)
EXTENDS Invoices, TLC

CONSTANTS r1, r2, i1, i2, acme

MCCompanyOf == [i \in Invoices |-> acme]

\* Requests, and invoices of one company, differ in nothing but their names.
Interchangeable == Permutations(Requests) \cup Permutations(Invoices)
=============================================================================
