----------------------------- MODULE MCSession -----------------------------
(* Values of the constants of Session for TLC.                             *)
EXTENDS Session

(* changesRequestedHeadOf is null where reviewedHeadOf is.                 *)
MCContexts == { c \in [ asksForReview : BOOLEAN, reviewedHead : BOOLEAN,
                        changesRequested : BOOLEAN ] :
                  c.changesRequested => c.reviewedHead }
=============================================================================
