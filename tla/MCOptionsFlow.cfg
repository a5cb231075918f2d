SPECIFICATION Spec
CONSTANTS
    Hall = Hall
    hall = hall
    Kitchen = Kitchen
    hall_id = hall_id
    kitchen_id = kitchen_id
    Variables = {room}
    LightNames = {Hall, hall, Kitchen}
    Ids = {hall_id, kitchen_id}
    Users = {admin}
    Passwords = {pw1}
    SecretKey = SecretKey
    Empty = Empty
    Absent = Absent
    Folded <- MCFolded
    Slug <- MCSlug
    Flows = {f1, f2}
    NoSession = NoSession
    NoFile = NoFile
    Patient = FALSE
    MaxLights = 2
    MaxSaves = 3
SYMMETRY Symmetry
INVARIANTS
    TypeOK
    
    
PROPERTIES
    LightsKeepIds
    RouteKept
