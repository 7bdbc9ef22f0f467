\* A field the reply does not carry is reported with another field's value.
CONSTANTS
    MaxMembers = 2
    Word = 4
    QueryIds = {"", "q1"}
    Exact = 4
    Rounded <- MCRounded
    Member <- MCMember
    Nested <- MCNested
    Bodies <- MCBodies
SPECIFICATION Spec
INVARIANT AbsentFieldsAreUnset
