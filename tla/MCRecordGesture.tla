--------------------------- MODULE MCRecordGesture --------------------------
EXTENDS RecordGesture
=============================================================================
