SPECIFICATION Spec
CONSTANTS
    Hall = Hall
    hall = hall
    Kitchen = Kitchen
    hall_id = hall_id
    kitchen_id = kitchen_id
    Variables = {room}
    LightNames = {Hall, Kitchen}
    Ids = {hall_id, kitchen_id}
    Users = {admin}
    Passwords = {pw1}
    SecretKey = SecretKey
    Empty = Empty
    Absent = Absent
    Folded <- MCFoldedTwo
    Slug <- MCSlugTwo
    Flows = {f1}
    NoSession = NoSession
    NoFile = NoFile
    Patient = TRUE
    MaxLights = 2
    MaxSaves = 3
INVARIANT LightIdsDistinct
