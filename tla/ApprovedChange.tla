--------------------------- MODULE ApprovedChange ---------------------------
(***************************************************************************)
(* What the preview, approve, apply and roll back tools promise, without   *)
(* tokens' lifetimes, ledgers, queues or an audit log: a document changes  *)
(* only by a change that was previewed on the very document it is made to  *)
(* and that the operator accepted, each once; and a change is undone only  *)
(* while the operation still is what the change made of it.                *)
(***************************************************************************)
EXTENDS PartDocument

CONSTANT Tokens

VARIABLES
    doc,     \* the document: the values of each operation's fields
    offers,  \* the change that each token previewed, and on what document
    stage    \* how far the change of each token has come

changeVars == <<doc, offers, stage>>

Offers == [token : Tokens, op : Operations, changes : Changes, on : Documents]

\* accepted -> changing -> changed -> reverting -> reverted; an audit failure
\* turns changing into failed and reverting back into changed.
Stages == {"none", "offered", "accepted", "changing", "failed",
           "changed", "reverting", "reverted"}

Move(t, from, to) == stage[t] = from /\ stage' = [stage EXCEPT ![t] = to]
-----------------------------------------------------------------------------
ChangeInit ==
    /\ doc \in Documents
    /\ offers = {}
    /\ stage = [t \in Tokens |-> "none"]

Offer(t) ==
    /\ Move(t, "none", "offered")
    /\ \E op \in Operations, changes \in Changes :
           offers' = offers \cup {[token |-> t, op |-> op, changes |-> changes, on |-> doc]}
    /\ UNCHANGED doc

\* A step that leaves the document alone.
Settle(t, from, to) == Move(t, from, to) /\ UNCHANGED <<doc, offers>>

Accept(t) == Settle(t, "offered", "accepted")
Keep(t) == Settle(t, "changing", "changed")
KeepReverted(t) == Settle(t, "reverting", "reverted")

\* No other change is being made or undone.
Quiet == \A t \in Tokens : stage[t] \notin {"changing", "reverting"}

Make(o) == doc' = With(doc, o.op, o.changes)

\* The operation gets back the values that the change replaced.
Undo(o) ==
    /\ Holds(doc, o.op, o.changes)
    /\ doc' = With(doc, o.op, Before(o.on, o.op, o.changes))

OfferOf(t) == {o \in offers : o.token = t}

Change(t) ==
    /\ Quiet
    /\ Move(t, "accepted", "changing")
    /\ \E o \in OfferOf(t) : doc = o.on /\ Make(o)
    /\ UNCHANGED offers

\* An apply that fails leaves the whole document as it was when it was previewed.
Fail(t) ==
    /\ Move(t, "changing", "failed")
    /\ \E o \in OfferOf(t) : Undo(o) /\ doc' = o.on
    /\ UNCHANGED offers

Revert(t) ==
    /\ Quiet
    /\ Move(t, "changed", "reverting")
    /\ \E o \in OfferOf(t) : Undo(o)
    /\ UNCHANGED offers

Redo(t) ==
    /\ Move(t, "reverting", "changed")
    /\ \E o \in OfferOf(t) : Make(o)
    /\ UNCHANGED offers

ChangeNext ==
    \E t \in Tokens :
        \/ Offer(t) \/ Accept(t) \/ Change(t) \/ Keep(t) \/ Fail(t)
        \/ Revert(t) \/ KeepReverted(t) \/ Redo(t)

ChangeSpec == ChangeInit /\ [][ChangeNext]_changeVars
=============================================================================
