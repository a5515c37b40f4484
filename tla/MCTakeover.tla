----------------------------- MODULE MCTakeover -----------------------------
(***************************************************************************)
(* Small instances of Takeover for TLC.  The configurations name the sets  *)
(* of unsolicited messages below; everything else they give is a set of    *)
(* model values or a number.                                               *)
(***************************************************************************)
EXTENDS Takeover

(* What happens to a chat that is under way or being set up.               *)
ChatNews == ConversationEvents \cup {"INVITATION"}

(* What comes in on the root channel besides replies.                      *)
RootNews == {"MESSAGE", "DEREGISTRATION"}

(* A buddy who enters late, or opens a second chat from his side.          *)
CrossedNews == {"UserEntered", "INVITATION"}

(* What an impolite server can say on the wrong channel or too late.       *)
RudeNews == {"UserEntered", "UserLeft", "INVITATION"}

EnterNews == {"UserEntered"}

NoNews == {}
=============================================================================
