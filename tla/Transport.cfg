SPECIFICATION SceneSpec
INVARIANTS
    MovementSound CorrespondenceSound InformationSound
PROPERTY BoundariesChangeOnce
CHECK_DEADLOCK FALSE
