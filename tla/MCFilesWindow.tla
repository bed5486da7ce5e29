---------------------------- MODULE MCFilesWindow ----------------------------
EXTENDS FilesWindow

CONSTANTS f1, f2, r

ByName == <<f1, f2>>
RomNames == <<f2, r>>
JustR == <<r>>
=============================================================================
