------------------------------- MODULE MCRoster -------------------------------
(* Instances of Roster for TLC. *)
EXTENDS Roster

Everything == {"set_status", "set_moodphrase", "update_info", "keep_alive", "set_sms_status",
               "list_create", "list_delete", "list_edit", "subscribe_only",
               "get_contact_info", "get_contact_info_by_no", "set_mobileno_permission",
               "set_displayname", "move_to_group", "copy_to_group", "remove_from_group",
               "delete_buddy", "add_buddy", "handle_contact_request"}
===============================================================================
