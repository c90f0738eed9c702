---------------------------- MODULE MCPictureFiles ----------------------------
(* Instances of PictureFiles.                                              *)
EXTENDS PictureFiles
=============================================================================
