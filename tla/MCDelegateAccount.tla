-------------------------- MODULE MCDelegateAccount --------------------------
(***************************************************************************)
(* Two nodes with coldkeys a1 and a2, four accounts, PF = 1 (100%) and the *)
(* rates 0 (too low), 1 and 2 (too high).                                  *)
(***************************************************************************)
EXTENDS DelegateAccount, TLC

CONSTANTS n1, n2, a1, a2

MCColdkey == (n1 :> a1) @@ (n2 :> a2)

\* The code's own operations, without the spec-modelled transfer.
NextCodeOnly ==
  \/ \E n \in Nodes, a \in Accounts \cup {None}, r \in Rates \cup {None} :
       DoUpdateDelegateAccount(n, a, r)
  \/ \E n \in Nodes, a \in Accounts : UpdateSubnetNodeHotkey(n, a)
=============================================================================
