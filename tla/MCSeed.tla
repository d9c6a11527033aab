--------------------------------- MODULE MCSeed --------------------------------
EXTENDS Seed
================================================================================
