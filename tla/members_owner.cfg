\* Two requests at a time about the members of an organization.
SPECIFICATION MembersSpec
CONSTANTS
    ann = ann  bob = bob
    Persons = {ann, bob}
    Orgs = {"o1", "o2"}
    Founding <- OwnerAndMember
    Referenced = {ann}
    Requests = {1, 2}
    KindsOf <- AnyAndOneOf
    MaxMembers = 3
    NewRoles = {"owner", "member"}
    Deletable = {"o2"}
    SigningIn = {bob}
INVARIANT
    LastOwnerStays
CHECK_DEADLOCK FALSE
