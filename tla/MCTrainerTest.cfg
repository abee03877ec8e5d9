SPECIFICATION Spec
CONSTANTS
    Documents <- Chains
    Numbers <- Number
    Modules <- Module
    Pieces <- Piece
    Lower <- Small
    Entities <- Entity
    Layouts <- Platforms
    Arms <- Weapon
    Guns = {1}
    Rifle = 1
    Builds = {"posix"}
    Games <- NoGame
    MaxTries = 0
    MaxPlays = 0
    MaxPresses = 0
    MaxHeight = 10
INVARIANT TestIsNonDestructive
CHECK_DEADLOCK FALSE
