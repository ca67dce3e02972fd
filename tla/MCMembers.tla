----------------------------- MODULE MCMembers -----------------------------
(* Values for TLC's instances of Members. *)
EXTENDS Members

CONSTANTS ann, bob

\* An owner and a member of one organization; another may be registered.
OwnerAndMember ==
    <<[user |-> ann, org |-> "o1", role |-> "owner", status |-> "active"],
      [user |-> bob, org |-> "o1", role |-> "member", status |-> "active"]>>

AnyAndOneOf == <<Kinds, {"update_role", "remove"}>>
=============================================================================
