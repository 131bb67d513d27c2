-------------------------- MODULE MCRequestRouter --------------------------
(***************************************************************************)
(* RequestRouter for TLC: a mutation, its retry under the same key, one    *)
(* that takes the key for another action, three mutations under keys of    *)
(* their own, and a read that comes under the first one's request id.      *)
(***************************************************************************)
EXTENDS RequestRouter

CONSTANTS First, Retry, Clash, Second, Third, Fourth, Read

MCRequests == {First, Retry, Clash, Second, Third, Fourth, Read}
MCRequestId == [r \in MCRequests |-> IF r = Read THEN First ELSE r]
MCKey == [r \in MCRequests |->
    IF r = Read THEN NoKey ELSE IF r \in {Retry, Clash} THEN First ELSE r]
MCAction == [r \in MCRequests |-> IF r = Retry THEN First ELSE r]
=============================================================================
