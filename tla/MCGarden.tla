------------------------------ MODULE MCGarden ------------------------------
EXTENDS GardenProperties
=============================================================================
