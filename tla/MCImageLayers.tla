--------------------------- MODULE MCImageLayers ----------------------------
EXTENDS ImageLayers

CONSTANTS a, b, name, constructor
=============================================================================
