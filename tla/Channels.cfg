CONSTANTS
  founder = founder
  deputy = deputy
  guest = guest
  r1 = r1
  r2 = r2
  yes = yes
  no = no
  Accounts = {founder, deputy, guest}
  Creator = founder
  Permissions = {"canManageMembers", "canAppointAdmins", "canDeleteChannel", "canManageInvites"}
  AdminDefault = {"canManageInvites"}
  Grants = {{"canManageMembers", "canAppointAdmins"}, {"canManageMembers", "canAppointAdmins", "canDeleteChannel", "canManageInvites"}}
  MayAdd <- OwnerMayAdd
  Private = FALSE
  Limits = {1, none}
  Unlimited = none
  People = {boss, helper, reader}
  Staff = {boss, helper}
  Boss = boss
  Entries = {p1, p2}
  Opening = p1
  Answers = {yes, no}
  MaxAnswers = 1
  NoAuthor = nobody
  MaxEpoch = 3
  Requests = {r1, r2}
  MaxRequests = 3
SPECIFICATION Spec2
SYMMETRY Symmetric
INVARIANT TypesOK
INVARIANT OneOwner
INVARIANT CountNeverOverstates
INVARIANT OneKeyPerEpoch
PROPERTY OwnerGoesOnlyOvertaken
PROPERTY RightsComeFromAbove
PROPERTY NothingForTheRemoved
PROPERTY OverlapsLeaveNoTrace
PROPERTY ModerationHolds
CHECK_DEADLOCK FALSE
