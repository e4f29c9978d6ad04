--------------------------- MODULE MCConversation ---------------------------
EXTENDS Conversation

(* Two functions of a namespace whose hashes agree and a plain function    *)
(* whose name is what that hash gives, in two orders; the upstream may     *)
(* also call f, which is only in the namespace.                            *)
MCIdentities == <<Tool("none", <<"h", 0>>), Tool("n", <<"f", 0>>), Tool("n", <<"g", 0>>)>>
MCBase(tool) == "h"
MCToolLists == {<<MCIdentities[2], MCIdentities[1], MCIdentities[3]>>,
                <<MCIdentities[3], MCIdentities[2], MCIdentities[1]>>}
MCStrays == {<<"f", 0>>}
=============================================================================
