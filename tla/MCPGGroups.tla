------------------------------ MODULE MCPGGroups ------------------------------
(* Two groups, one of them the user's own. *)
EXTENDS PGGroups

CONSTANTS joinedGroup, ownGroup, a, b

MembersUsed == [x \in {joinedGroup, ownGroup} |-> IF x = joinedGroup THEN <<a, b>> ELSE <<a>>]

Everything == {"get_list", "get_info", "subscribe", "get_group_members", "update_group_info",
               "send_invitation", "send_message", "send_sms"}
===============================================================================
