CONSTANTS
  Members = {m, n}
  OwnerOps = {"invite", "remove", "permit", "colours", "disband"}
  MemberOps = {"join", "leave", "forget", "add", "color", "sync"}
  MaxOwner = 3
  MaxAsk = 2
  MaxFault = 1
SPECIFICATION Spec
INVARIANTS TypeOK InvitedOnly InvitationStands CopiesAgree
CHECK_DEADLOCK FALSE
