--------------------------- MODULE MCCameraObjects ---------------------------
(* TLC instance of CameraObjects.                                           *)
EXTENDS CameraObjects
=============================================================================
