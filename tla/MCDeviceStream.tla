--------------------------- MODULE MCDeviceStream ---------------------------
\* Instance of DeviceStream for TLC; the configurations give the numbers.
EXTENDS DeviceStream
=============================================================================
