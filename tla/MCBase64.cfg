SPECIFICATION Spec
CONSTANTS
    Blobs <- MCBlobs
    Spaces = {32, 10}
    Strangers = {0, 45, 64, 91, 255}
INVARIANTS TypeOK RoundTrip DamageIsNoticedOrHarmless EncodesAsStandard
CHECK_DEADLOCK FALSE
