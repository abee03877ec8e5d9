SPECIFICATION Spec
CONSTANTS
    Documents <- Tables
    Numbers <- Number
    Modules <- Module
    Pieces <- Piece
    Lower <- Small
    Entities <- Entity
    Layouts <- Platforms
    Arms <- Weapon
    Guns = {0, 1}
    Rifle = 1
    Builds = {"windows", "darwin", "posix"}
    Games <- Running
    MaxTries = 1
    MaxPlays = 1
    MaxPresses = 1
    MaxHeight = 10
INVARIANTS TypeOK TableIsFaithful FreezeFollowsTheToggle HeldKeyFiresOnce TestPutsBack
PROPERTY OnlyItsTarget
CHECK_DEADLOCK FALSE
